---- MODULE Spec2Model ----
(***************************************************************************)
(* The datasheet pipeline of src/script.py: the orchestrator               *)
(* DigiKeyDownloader.run, the search workers APIWorker._run, the download  *)
(* workers DigiKeyDownloader.download_worker with download_datasheet, and  *)
(* SimpleRateLimiter.                                                      *)
(*                                                                         *)
(* Spec          one run over an empty output directory, one API worker    *)
(*               and one download worker, a SIGINT at any moment of the    *)
(*               drain loop.                                               *)
(* SpecResume    the same run over a directory earlier runs have written.  *)
(* SpecDownloads two download workers on a queue of jobs, and the SIGINT.  *)
(* SpecNoSignal  one run with two API workers, no SIGINT, every thread     *)
(*               scheduled fairly.                                         *)
(* SpecRL        the search workers' calls of wait_if_needed against a     *)
(*               clock.                                                    *)
(* SpecAuth      two threads on each token holder, the shared downloader   *)
(*               (_ensure_authenticated) and an APIWorker                  *)
(*               (_ensure_worker_authenticated), against a clock.          *)
(* SpecSearch    the calls of _search_part_with_headers and their POSTs.   *)
(* SpecBestMatch one call of _find_best_match on a list of products.        *)
(* SpecVariants  one call of _find_manufacturer_variants on a name and     *)
(*               the tables of manufacturers.json.                         *)
(* SpecPause     the drain loop of run() around its pause after five       *)
(*               errors in a row, with one worker of each kind.            *)
(* SpecFill      the target file names of the parts put on the queue.      *)
(* SpecRaise     one run in which the workers' loops catch exceptions.     *)
(* SpecKey       the calls of search_part_with_key by one search worker:   *)
(*               token check, rate limiter and POST, against a clock.      *)
(* SpecProgress  the calls of ProgressBar.update and update_worker_status  *)
(*               by run() and three workers, statement by statement.       *)
(* SpecSocket    the GETs of two download workers around the process-wide  *)
(*               socket timeout, statement by statement.                   *)
(* SpecStop      one run over one part with its SIGINT, every thread       *)
(*               scheduled fairly.                                         *)
(***************************************************************************)
EXTENDS Integers, Sequences, FiniteSets, TLC

\* ------------------------------------------------------------------ bounds
NumParts == 2
\* the requests per minute the limiters are built with (120 in the source)
REQUESTS_PER_MINUTE == 2
\* the calls of wait_if_needed followed, over all workers
MaxCalls == 5
\* the clock stops here
MaxTime == 62
\* the token requests followed, over all threads
MaxPosts == 3
\* the calls of _search_part_with_headers followed
MaxSearches == 2
\* the longest part number, and the longest list of products of an answer
MaxPnLen == 2
MaxProducts == 2
\* the longest answer of difflib.get_close_matches followed
MaxClose == 2

Parts == 1..NumParts
\* queue.put(None): the sentinel of download_queue
None == 0
\* API-Worker-1, API-Worker-2: the pool run() can start, one worker per API
\* key up to MAX_API_WORKERS = 2
APIWorkers == {1, 2}
\* DL-Worker-1, DL-Worker-2: the download workers modelled, of the MAX_WORKERS
\* the executor is given
DLWorkers == {1, 2}

RESUME_ON_RESTART == TRUE
\* parts whose datasheet URL is on st.com / stmicroelectronics.com
ProblematicParts == {2}
max_attempts_any_host(p) == 3
max_attempts(p) == IF p \in ProblematicParts THEN 2 ELSE 3
\* consecutive errors that trigger the pause
PAUSE_AFTER_ERRORS == 5
\* the window of SimpleRateLimiter, and what it adds to a wait, in seconds
WINDOW == 60
WAIT_MARGIN == 1
\* the seconds taken off expires_in when the expiry is stored, the sleep
\* after a 429, and the expires_in assumed when the answer names none
EXPIRY_MARGIN == 60
THROTTLE_SLEEP == 60
DEFAULT_EXPIRES_IN == 1800
\* the manufacturer ids _find_manufacturer_variants returns at most, and
\* the ids of them that go into the search filter
MAX_VARIANTS == 5
FILTER_IDS == 3
\* the longest file name sanitize_filename lets through
MAX_FILENAME == 250
\* socket.setdefaulttimeout(15) in _make_request, socket.setdefaulttimeout(10)
\* for a URL on st.com / stmicroelectronics.com
SOCKET_TIMEOUT == 15
PROBLEMATIC_SOCKET_TIMEOUT == 10
\* the steps the clock is seen to make
TickSteps == {30, 31}

\* what a target file on disk can be: missing, zero bytes, non-empty content
\* that does not start with %PDF or is a fragment of a body, the four bytes
\* %PDF and nothing else, a complete body starting with %PDF that is longer
FileStates == {"absent", "empty", "partial", "signature", "pdf"}

VARIABLES
  \* the output directory and the process
  files,
  \* module globals and run()'s locals
  shutdown_flag, parts_queue, download_queue, results_queue, results,
  completed_count, consecutive_errors, mainpc, at_shutdown,
  \* APIWorker
  is_running, apipc, api_item, has_token,
  \* download_worker / download_datasheet; gets counts the GETs the call of
  \* download_datasheet in progress has sent, own_error is the detail that
  \* call itself has assigned; last_download_error and last_fixed_url are
  \* attributes of the one downloader every download worker runs on
  dlpc, dl_job, attempt, n403, dl_success, waits, html_seen, gets, own_error,
  last_download_error, last_fixed_url,
  \* the requests sent upstream in this run
  requests,
  \* SimpleRateLimiter and the clock
  now, request_times, rl_lock, rlpc, rl_now, rl_wake, issued,
  \* the credentials: of the downloader (shared, behind session_lock) and of
  \* an API worker (its own), and the threads calling for them
  access_token, token_expiry, session_lock, authpc, auth_req, auth_ret,
  token_ok, token_posts,
  \* the calls of _search_part_with_headers made, with the POSTs of each
  search_calls,
  \* a call of one of the functions without side effects: its arguments and
  \* what it returned
  call_in, call_out,
  \* socket.getdefaulttimeout() of the process, and of each download worker
  \* the value it saved before its GET and where it is around that GET
  default_timeout, old_timeout, sockpc,
  \* ProgressBar: current, the thread that holds its lock, worker_status,
  \* where each thread is in a method of the bar, and the worker lines that
  \* _refresh_display read last
  current, progress_lock, worker_status, progpc, displayed

diskVars == <<files>>
mainVars == <<results, completed_count, consecutive_errors, mainpc>>
apiVars == <<is_running, apipc, api_item, has_token>>
dlVars == <<dlpc, dl_job, attempt, n403, dl_success, waits, html_seen,
            gets, own_error>>
sharedVars == <<last_download_error, last_fixed_url>>
rlVars == <<now, request_times, rl_lock, rlpc, rl_now, rl_wake, issued>>
authVars == <<access_token, token_expiry, session_lock, authpc, auth_req,
              auth_ret, token_ok, token_posts>>
callVars == <<call_in, call_out>>
socketVars == <<default_timeout, old_timeout, sockpc>>
progressVars == <<current, progress_lock, worker_status, progpc, displayed>>
vars == <<files, shutdown_flag, parts_queue, download_queue,
          results_queue, results, completed_count, consecutive_errors,
          mainpc, at_shutdown, is_running, apipc, api_item, has_token,
          dlpc, dl_job, attempt, n403, dl_success, waits, html_seen, gets, own_error,
          last_download_error, last_fixed_url,
          requests, now, request_times, rl_lock, rlpc,
          rl_now, rl_wake, issued, access_token, token_expiry,
          session_lock, authpc, auth_req, auth_ret, token_ok, token_posts,
          search_calls, call_in, call_out, default_timeout, old_timeout,
          sockpc, current, progress_lock, worker_status, progpc, displayed>>

\* ------------------------------------------------------------------ helpers
\* the workers that were started
StartedAPI == {w \in APIWorkers : apipc[w] # "off"}
StartedDL == {d \in DLWorkers : dlpc[d] # "off"}
\* the worker run() reads in `api_worker.is_running`: the loop variable of
\* the start loop, left at the last worker started
LastAPIWorker == CHOOSE w \in StartedAPI : \A v \in StartedAPI : v <= w

Range(s) == {s[i] : i \in 1..Len(s)}

Statuses == {"success", "no_datasheet", "not_found", "download_failed", "error"}
Categories == {"success", "no_datasheet", "not_found", "download_failed", "errors"}

Result(p, status, skipped, message) ==
  [part |-> p, status |-> status, skipped |-> skipped, message |-> message]

\* os.path.exists(filepath) and os.path.getsize(filepath) > 0
ResumeHitNever(p) == FALSE
ResumeHit(p) == RESUME_ON_RESTART /\ files[p] \in {"partial", "signature", "pdf"}

\* RESUME_ON_RESTART and os.path.exists(filepath)
DownloadExists(p) == RESUME_ON_RESTART /\ files[p] # "absent"

\* the parts taken from parts_queue whose result run() has not drained
Drained == UNION {{r.part : r \in Range(results[c])} : c \in Categories}
InFlight == (Parts \ Range(parts_queue)) \ Drained

\* what is recorded the moment shutdown_flag goes from clear to set
Snapshot ==
  [set |-> TRUE, inflight |-> InFlight,
   queued |-> {r.part : r \in Range(results_queue)}]
NoSnapshot == [set |-> FALSE, inflight |-> {}, queued |-> {}]

\* the objects that hold a credential: the DigiKeyDownloader, an APIWorker
Holders == {"downloader", "worker"}
\* the threads that call for a credential; the worker's is called by the
\* worker's own thread only
AuthThreads == {1, 2}
CallersOf(h) == IF h = "downloader" THEN AuthThreads ELSE {1}
NoRequest == [holder |-> "none", gen |-> 0, wake |-> 0]

\* ------------------------------------------------------------------ Init
\* no function call is followed
NoCall ==
  /\ call_in = [fn |-> "none"]
  /\ call_out = [done |-> FALSE]

\* the threads that call the progress bar: run() and the workers under the
\* names run() gives them
ProgWorkers == {"API-Worker", "DL-Worker-1", "DL-Worker-2"}
ProgThreads == {"main"} \cup ProgWorkers

\* ProgressBar.__init__
ProgressInit ==
  /\ current = 0
  /\ progress_lock = "free"
  /\ worker_status = [w \in ProgWorkers |-> ""]
  /\ progpc = [t \in ProgThreads |-> "out"]
  /\ displayed = [w \in ProgWorkers |-> ""]

RLInit ==
  /\ ProgressInit
  /\ now = 0
  /\ request_times = [w \in APIWorkers |-> <<>>]
  /\ rl_lock = [w \in APIWorkers |-> None]
  /\ rlpc = [w \in APIWorkers |-> "idle"]
  /\ rl_now = [w \in APIWorkers |-> 0]
  /\ rl_wake = [w \in APIWorkers |-> 0]
  /\ issued = [w \in APIWorkers |-> <<>>]
  /\ access_token = [h \in Holders |-> None]
  /\ token_expiry = [h \in Holders |-> None]
  /\ session_lock = None
  /\ authpc = [t \in AuthThreads |-> "idle"]
  /\ auth_req = [t \in AuthThreads |-> NoRequest]
  /\ auth_ret = [t \in AuthThreads |-> "none"]
  /\ token_ok = {}
  /\ token_posts = 0
  /\ search_calls = <<>>
  /\ default_timeout = None
  /\ old_timeout = [d \in DLWorkers |-> None]
  /\ sockpc = [d \in DLWorkers |-> "idle"]

\* run() up to the start of the drain loop: queues filled, the first nApi
\* API workers (actual_api_workers) and the first nDl download workers
\* started; "off" is a worker that was not started
RunInit(nApi, nDl) ==
  /\ shutdown_flag = FALSE
  /\ parts_queue = [i \in 1..NumParts |-> i]
  /\ download_queue = <<>>
  /\ results_queue = <<>>
  /\ results = [c \in Categories |-> <<>>]
  /\ completed_count = 0
  /\ consecutive_errors = 0
  /\ mainpc = "drain"
  /\ at_shutdown = NoSnapshot
  /\ is_running = [w \in APIWorkers |-> w <= nApi]
  /\ apipc = [w \in APIWorkers |-> IF w <= nApi THEN "loop" ELSE "off"]
  /\ api_item = [w \in APIWorkers |-> None]
  /\ has_token = [w \in APIWorkers |-> FALSE]
  /\ dlpc = [d \in DLWorkers |-> IF d <= nDl THEN "loop" ELSE "off"]
  /\ dl_job = [d \in DLWorkers |-> None]
  /\ attempt = [d \in DLWorkers |-> 0]
  /\ n403 = [d \in DLWorkers |-> 0]
  /\ dl_success = [d \in DLWorkers |-> FALSE]
  /\ waits = [d \in DLWorkers |-> <<>>]
  /\ html_seen = [d \in DLWorkers |-> "no"]
  /\ gets = [d \in DLWorkers |-> 0]
  /\ own_error = [d \in DLWorkers |-> "None"]
  /\ last_download_error = "None"
  /\ last_fixed_url = None
  /\ requests = {}

\* a run over an empty output directory with one API key and one download
\* worker
Init ==
  /\ files = [p \in Parts |-> "absent"]
  /\ RunInit(1, 1)
  /\ RLInit
  /\ NoCall

\* a run over an output directory that earlier runs have written to
InitResume ==
  /\ files \in [Parts -> FileStates]
  /\ RunInit(1, 1)
  /\ RLInit
  /\ NoCall

\* a run over an empty output directory with two API workers
InitPools ==
  /\ files = [p \in Parts |-> "absent"]
  /\ RunInit(2, 1)
  /\ RLInit
  /\ NoCall

\* a run over a list of one part and an empty output directory, with one
\* API key and one download worker
InitStop ==
  /\ files = [p \in {1} |-> "absent"]
  /\ shutdown_flag = FALSE
  /\ parts_queue = <<1>>
  /\ download_queue = <<>>
  /\ results_queue = <<>>
  /\ results = [c \in Categories |-> <<>>]
  /\ completed_count = 0
  /\ consecutive_errors = 0
  /\ mainpc = "drain"
  /\ at_shutdown = NoSnapshot
  /\ is_running = [w \in APIWorkers |-> w = 1]
  /\ apipc = [w \in APIWorkers |-> IF w = 1 THEN "loop" ELSE "off"]
  /\ api_item = [w \in APIWorkers |-> None]
  /\ has_token = [w \in APIWorkers |-> FALSE]
  /\ dlpc = [d \in DLWorkers |-> IF d = 1 THEN "loop" ELSE "off"]
  /\ dl_job = [d \in DLWorkers |-> None]
  /\ attempt = [d \in DLWorkers |-> 0]
  /\ n403 = [d \in DLWorkers |-> 0]
  /\ dl_success = [d \in DLWorkers |-> FALSE]
  /\ waits = [d \in DLWorkers |-> <<>>]
  /\ html_seen = [d \in DLWorkers |-> "no"]
  /\ gets = [d \in DLWorkers |-> 0]
  /\ own_error = [d \in DLWorkers |-> "None"]
  /\ last_download_error = "None"
  /\ last_fixed_url = None
  /\ requests = {}
  /\ RLInit
  /\ NoCall

\* the drain loop with a result of every part waiting in results_queue and
\* the workers running
InitProgress ==
  /\ files = [p \in Parts |-> "absent"]
  /\ shutdown_flag = FALSE
  /\ parts_queue = <<>>
  /\ download_queue = <<>>
  /\ \E st \in [Parts -> {"success", "error"}] :
       results_queue = [p \in Parts |-> Result(p, st[p], FALSE, "")]
  /\ results = [c \in Categories |-> <<>>]
  /\ completed_count = 0
  /\ consecutive_errors = 0
  /\ mainpc = "get"
  /\ at_shutdown = NoSnapshot
  /\ is_running = [w \in APIWorkers |-> w = 1]
  /\ apipc = [w \in APIWorkers |-> IF w = 1 THEN "get" ELSE "off"]
  /\ api_item = [w \in APIWorkers |-> None]
  /\ has_token = [w \in APIWorkers |-> w = 1]
  /\ dlpc = [d \in DLWorkers |-> "loop"]
  /\ dl_job = [d \in DLWorkers |-> None]
  /\ attempt = [d \in DLWorkers |-> 0]
  /\ n403 = [d \in DLWorkers |-> 0]
  /\ dl_success = [d \in DLWorkers |-> FALSE]
  /\ waits = [d \in DLWorkers |-> <<>>]
  /\ html_seen = [d \in DLWorkers |-> "no"]
  /\ gets = [d \in DLWorkers |-> 0]
  /\ own_error = [d \in DLWorkers |-> "None"]
  /\ last_download_error = "None"
  /\ last_fixed_url = None
  /\ requests = {<<"auth", 1>>} \cup {<<"search", p>> : p \in Parts}
  /\ RLInit
  /\ NoCall

\* two download workers, each in download_datasheet with its job, before
\* the first GET
InitSocket ==
  /\ files = [p \in Parts |-> "absent"]
  /\ shutdown_flag = FALSE
  /\ parts_queue = <<>>
  /\ download_queue = <<>>
  /\ results_queue = <<>>
  /\ results = [c \in Categories |-> <<>>]
  /\ completed_count = 0
  /\ consecutive_errors = 0
  /\ mainpc = "get"
  /\ at_shutdown = NoSnapshot
  /\ is_running = [w \in APIWorkers |-> w = 1]
  /\ apipc = [w \in APIWorkers |-> IF w = 1 THEN "get" ELSE "off"]
  /\ api_item = [w \in APIWorkers |-> None]
  /\ has_token = [w \in APIWorkers |-> w = 1]
  /\ dlpc = [d \in DLWorkers |-> "attempt"]
  /\ dl_job = [d \in DLWorkers |-> d]
  /\ attempt = [d \in DLWorkers |-> 0]
  /\ n403 = [d \in DLWorkers |-> 0]
  /\ dl_success = [d \in DLWorkers |-> FALSE]
  /\ waits = [d \in DLWorkers |-> <<>>]
  /\ html_seen = [d \in DLWorkers |-> "no"]
  /\ gets = [d \in DLWorkers |-> 0]
  /\ own_error = [d \in DLWorkers |-> "None"]
  /\ last_download_error = "None"
  /\ last_fixed_url \in Parts
  /\ requests = {<<"auth", 1>>} \cup {<<"search", p>> : p \in Parts}
  /\ RLInit
  /\ NoCall

\* a run over PAUSE_AFTER_ERRORS + 1 parts, with one API key, at the moment
\* the results of all the parts but the last two, errors of the search, have
\* been drained
PauseParts == 1..(PAUSE_AFTER_ERRORS + 1)
InitPause ==
  /\ files = [p \in PauseParts |-> "absent"]
  /\ shutdown_flag = FALSE
  /\ parts_queue = <<PAUSE_AFTER_ERRORS, PAUSE_AFTER_ERRORS + 1>>
  /\ download_queue = <<>>
  /\ results_queue = <<>>
  /\ results = [c \in Categories |->
                  IF c = "errors"
                  THEN [p \in 1..(PAUSE_AFTER_ERRORS - 1) |->
                          Result(p, "error", FALSE, "Search failed")]
                  ELSE <<>>]
  /\ completed_count = PAUSE_AFTER_ERRORS - 1
  /\ consecutive_errors = PAUSE_AFTER_ERRORS - 1
  /\ mainpc = "drain"
  /\ at_shutdown = NoSnapshot
  /\ is_running = [w \in APIWorkers |-> w = 1]
  /\ apipc = [w \in APIWorkers |-> IF w = 1 THEN "loop" ELSE "off"]
  /\ api_item = [w \in APIWorkers |-> None]
  /\ has_token = [w \in APIWorkers |-> w = 1]
  /\ dlpc = [d \in DLWorkers |-> IF d = 1 THEN "loop" ELSE "off"]
  /\ dl_job = [d \in DLWorkers |-> None]
  /\ attempt = [d \in DLWorkers |-> 0]
  /\ n403 = [d \in DLWorkers |-> 0]
  /\ dl_success = [d \in DLWorkers |-> FALSE]
  /\ waits = [d \in DLWorkers |-> <<>>]
  /\ html_seen = [d \in DLWorkers |-> "no"]
  /\ gets = [d \in DLWorkers |-> 0]
  /\ own_error = [d \in DLWorkers |-> "None"]
  /\ last_download_error = "None"
  /\ last_fixed_url = None
  /\ requests = {<<"auth", 1>>}
  /\ RLInit
  /\ NoCall

\* a run with two download workers at the moment its one API worker has
\* searched every part and queued a job for each; none of the target files
\* has a byte in it (the search worker skips the others)
InitDownloads ==
  /\ files \in [Parts -> {"absent", "empty"}]
  /\ shutdown_flag = FALSE
  /\ parts_queue = <<>>
  /\ download_queue = [i \in 1..NumParts |-> i]
  /\ results_queue = <<>>
  /\ results = [c \in Categories |-> <<>>]
  /\ completed_count = 0
  /\ consecutive_errors = 0
  /\ mainpc = "get"
  /\ at_shutdown = NoSnapshot
  /\ is_running = [w \in APIWorkers |-> w = 1]
  /\ apipc = [w \in APIWorkers |-> IF w = 1 THEN "get" ELSE "off"]
  /\ api_item = [w \in APIWorkers |-> None]
  /\ has_token = [w \in APIWorkers |-> w = 1]
  /\ dlpc = [d \in DLWorkers |-> "loop"]
  /\ dl_job = [d \in DLWorkers |-> None]
  /\ attempt = [d \in DLWorkers |-> 0]
  /\ n403 = [d \in DLWorkers |-> 0]
  /\ dl_success = [d \in DLWorkers |-> FALSE]
  /\ waits = [d \in DLWorkers |-> <<>>]
  /\ html_seen = [d \in DLWorkers |-> "no"]
  /\ gets = [d \in DLWorkers |-> 0]
  /\ own_error = [d \in DLWorkers |-> "None"]
  /\ last_download_error = "None"
  /\ last_fixed_url = None
  /\ requests = {<<"auth", 1>>} \cup {<<"search", p>> : p \in Parts}
  /\ RLInit
  /\ NoCall

\* ------------------------------------------------------------------ APIWorker._run
\* what search_part_with_key gives back, as _run tells the cases apart:
\* a product with a DatasheetUrl, a product without one, None (no product,
\* HTTP error, throttling or a swallowed exception), an exception, and a
\* return later than max_part_time = 45 s after the start
SearchOutcomes == {"product_url", "product_nourl", "none", "raise", "slow"}

\* queue.get(timeout=1): a get on an empty queue gives up after a second
\* (queue.Empty) and the caller is back at its loop condition
GetTimeoutNone == FALSE
GetTimeout == TRUE

\* `while self.is_running and not shutdown_flag.is_set()`, and the status
\* update after the loop
ApiLoop(w) ==
  /\ apipc[w] = "loop"
  /\ apipc' = [apipc EXCEPT ![w] =
                 IF is_running[w] /\ ~shutdown_flag THEN "get" ELSE "stopped"]
  /\ UNCHANGED <<diskVars, shutdown_flag, parts_queue, download_queue,
                 results_queue, mainVars, at_shutdown, is_running, api_item,
                 has_token, dlVars, sharedVars, requests, rlVars,
                 authVars, search_calls, callVars,
                 socketVars, progressVars>>

\* parts_queue.get(timeout=1), then the resume check on the target file.
\* On queue.Empty the worker is back at the loop condition and, while that
\* holds, in get() again: it leaves "get" only for an item or to stop.
ApiGet(w) ==
  /\ apipc[w] = "get"
  /\ IF parts_queue = <<>>
     THEN /\ GetTimeout
          /\ ~(is_running[w] /\ ~shutdown_flag)
          /\ apipc' = [apipc EXCEPT ![w] = "stopped"]
          /\ UNCHANGED <<parts_queue, results_queue, api_item>>
     ELSE LET p == Head(parts_queue) IN
          /\ parts_queue' = Tail(parts_queue)
          /\ IF ResumeHit(p)
             THEN /\ results_queue' =
                       Append(results_queue, Result(p, "success", TRUE, ""))
                  /\ apipc' = [apipc EXCEPT ![w] = "loop"]
                  /\ UNCHANGED api_item
             ELSE /\ api_item' = [api_item EXCEPT ![w] = p]
                  /\ apipc' = [apipc EXCEPT ![w] = "search"]
                  /\ UNCHANGED results_queue
  /\ UNCHANGED <<diskVars, shutdown_flag, download_queue, mainVars,
                 at_shutdown, is_running, has_token, dlVars, sharedVars,
                 requests, rlVars,
                 authVars, search_calls, callVars,
                 socketVars, progressVars>>

\* the result _run puts for an outcome of search_part_with_key
SearchResultAlwaysError(p, o) == Result(p, "error", FALSE, "Unknown error")
SearchResult(p, o) ==
  CASE o = "auth_failed" -> Result(p, "error", FALSE, "Failed to authenticate API worker")
    [] o = "raise" -> Result(p, "error", FALSE, "Search failed")
    [] o = "slow" -> Result(p, "error", FALSE, "Processing timeout")
    [] o = "none" -> Result(p, "not_found", FALSE, "")
    [] o = "product_nourl" -> Result(p, "no_datasheet", FALSE, "")
    [] OTHER -> Result(p, "success", FALSE, "")

\* the outcomes for which _run puts a result itself: every one but a
\* product with a DatasheetUrl, whose result is left to the download worker
PutsResultAlways(o) == TRUE
PutsResult(o) == o # "product_url"

\* the outcome for which _run builds a DownloadJob and puts it on
\* download_queue: a product whose DatasheetUrl is not empty
QueuesJobAnyProduct(o) == o \in {"product_url", "product_nourl"}
QueuesJob(o) == o = "product_url"

\* the 429 answers: to the token request of authenticate_worker, and to the
\* keyword search of _try_general_search; both are followed by
\* time.sleep(60) in the worker's thread
Throttlings == {"auth_throttled", "throttled"}
\* where a worker is when it is done with an item, failed or not:
\* `continue`, or the end of the loop body
AfterItemStopped == "stopped"
AfterItem == "loop"

\* search_part_with_key and what _run does with its outcome: one result on
\* results_queue, or one DownloadJob on download_queue. The token request
\* is sent when no token is held or the held one has expired; a 429 to it
\* or to the search starts the 60 s sleep and puts nothing yet
ApiSearch(w) ==
  /\ apipc[w] = "search"
  /\ LET p == api_item[w] IN
     \E expired \in BOOLEAN :
     LET needs_auth == ~has_token[w] \/ expired IN
     \E o \in SearchOutcomes \cup {"throttled"}
              \cup (IF needs_auth THEN {"auth_failed", "auth_throttled"} ELSE {}) :
       /\ requests' = requests
            \cup (IF needs_auth THEN {<<"auth", p>>} ELSE {})
            \cup (IF o \in {"auth_failed", "auth_throttled", "raise"}
                  THEN {} ELSE {<<"search", p>>})
       /\ has_token' = [has_token EXCEPT ![w] =
                          o \notin {"auth_failed", "auth_throttled"}]
       /\ IF o \in Throttlings
          THEN /\ apipc' = [apipc EXCEPT ![w] =
                              IF o = "throttled" THEN "cooldown" ELSE "auth_cooldown"]
               /\ UNCHANGED <<download_queue, results_queue, api_item>>
          ELSE /\ download_queue' = IF QueuesJob(o)
                                    THEN Append(download_queue, p)
                                    ELSE download_queue
               /\ results_queue' = IF PutsResult(o)
                                   THEN Append(results_queue, SearchResult(p, o))
                                   ELSE results_queue
               /\ apipc' = [apipc EXCEPT ![w] = AfterItem]
               /\ api_item' = [api_item EXCEPT ![w] = None]
  /\ UNCHANGED <<diskVars, shutdown_flag, parts_queue, mainVars, at_shutdown,
                 is_running, dlVars, sharedVars, rlVars,
                 authVars, search_calls, callVars,
                 socketVars, progressVars>>

\* the 60 s sleep is over and search_part_with_key returns (None, or the
\* authentication_failed error): more than max_part_time = 45 s have passed
\* since part_start_time, so _run puts the timeout error and goes on
ApiCooldown(w) ==
  /\ apipc[w] \in {"cooldown", "auth_cooldown"}
  /\ results_queue' = Append(results_queue, SearchResult(api_item[w], "slow"))
  /\ apipc' = [apipc EXCEPT ![w] = AfterItem]
  /\ api_item' = [api_item EXCEPT ![w] = None]
  /\ UNCHANGED <<diskVars, shutdown_flag, parts_queue, download_queue,
                 mainVars, at_shutdown, is_running, has_token, dlVars,
                 sharedVars, requests, rlVars,
                 authVars, search_calls, callVars,
                 socketVars, progressVars>>

ApiStep(w) == ApiLoop(w) \/ ApiGet(w) \/ ApiSearch(w) \/ ApiCooldown(w)

\* where a worker is after the `except Exception` of its loop: the handler
\* ends the turn of the loop, not the loop
AfterRaiseStopped == "stopped"
AfterRaise == "loop"

\* an exception raised in the loop body outside the inner try, with the
\* item in hand and nothing put for it yet: before the search, or while the
\* product it returned is looked at (a product that is no dict). The
\* handler puts one error result and the loop goes on
ApiRaise(w) ==
  /\ apipc[w] = "search"
  /\ \E searched \in BOOLEAN :
       requests' = requests
         \cup (IF searched THEN {<<"search", api_item[w]>>} ELSE {})
         \cup (IF searched /\ ~has_token[w]
               THEN {<<"auth", api_item[w]>>} ELSE {})
  /\ results_queue' = Append(results_queue,
       Result(api_item[w], "error", FALSE, "API worker error"))
  /\ apipc' = [apipc EXCEPT ![w] = AfterRaise]
  /\ api_item' = [api_item EXCEPT ![w] = None]
  /\ UNCHANGED <<diskVars, shutdown_flag, parts_queue, download_queue,
                 mainVars, at_shutdown, is_running, has_token, dlVars,
                 sharedVars, rlVars, authVars, search_calls, callVars,
                 socketVars, progressVars>>

\* ------------------------------------------------------------------ download_worker
\* the answers to one GET of download_datasheet: the two statuses it retries
\* with backoff, another error status (raise_for_status), a timeout or
\* connection error before the body, a 200 with an HTML content type (a page
\* with or without a direct link to the PDF in it), and a 200 whose body is
\* then streamed to the file
HttpResponses == {"403", "429", "http_error", "timeout", "html", "html_link",
                  "body"}
\* how the streaming of a body ends: a complete body starting with %PDF and
\* longer than that, a complete body of the four bytes %PDF, a complete body
\* that does not start with %PDF, a complete body whose validation raises
\* (the file cannot be opened or read), and a timeout or connection error
\* after no chunk or after some chunks were written
BodyEnds == {"pdf", "signature", "notpdf", "validation_raises", "cut_empty",
             "cut_partial"}

\* `while not shutdown_flag.is_set()`, and the status update after the loop
DlLoop(d) ==
  /\ dlpc[d] = "loop"
  /\ dlpc' = [dlpc EXCEPT ![d] = IF ~shutdown_flag THEN "get" ELSE "stopped"]
  /\ UNCHANGED <<diskVars, shutdown_flag, parts_queue, download_queue,
                 results_queue, mainVars, at_shutdown, apiVars, dl_job,
                 attempt, n403, dl_success, waits, html_seen, gets, own_error, sharedVars,
                 requests, rlVars,
                 authVars, search_calls, callVars,
                 socketVars, progressVars>>

\* download_queue.get(timeout=1), the sentinel, the worker's resume check,
\* and the entry of download_datasheet down to its own existence check.
\* On queue.Empty the worker is back at the loop condition and, while that
\* holds, in get() again: it leaves "get" only for an item or to stop.
DlGet(d) ==
  /\ dlpc[d] = "get"
  /\ IF download_queue = <<>>
     THEN /\ GetTimeout
          /\ shutdown_flag
          /\ dlpc' = [dlpc EXCEPT ![d] = "stopped"]
          /\ UNCHANGED <<download_queue, results_queue, dl_job, attempt,
                         n403, dl_success, sharedVars>>
     ELSE LET job == Head(download_queue) IN
          /\ download_queue' = Tail(download_queue)
          /\ IF job = None
             THEN /\ dlpc' = [dlpc EXCEPT ![d] = "stopped"]
                  /\ UNCHANGED <<results_queue, dl_job, attempt, n403,
                                 dl_success, sharedVars>>
             ELSE IF ResumeHit(job)
             THEN /\ results_queue' =
                       Append(results_queue, Result(job, "success", TRUE, ""))
                  /\ dlpc' = [dlpc EXCEPT ![d] = "loop"]
                  /\ UNCHANGED <<dl_job, attempt, n403, dl_success, sharedVars>>
             ELSE /\ dl_job' = [dl_job EXCEPT ![d] = job]
                  /\ last_download_error' = "None"
                  /\ last_fixed_url' = job
                  /\ attempt' = [attempt EXCEPT ![d] = 0]
                  /\ n403' = [n403 EXCEPT ![d] = 0]
                  /\ dl_success' = [dl_success EXCEPT ![d] = DownloadExists(job)]
                  /\ dlpc' = [dlpc EXCEPT ![d] =
                                IF DownloadExists(job) THEN "emit" ELSE "attempt"]
                  /\ UNCHANGED results_queue
  /\ UNCHANGED <<diskVars, shutdown_flag, parts_queue, mainVars, at_shutdown,
                 apiVars, waits, html_seen, gets, own_error, requests, rlVars,
                 authVars, search_calls, callVars,
                 socketVars, progressVars>>

\* download_datasheet returns `ok`, leaving `err` in last_download_error
\* ("keep": the branch does not assign it)
DlReturn(d, ok, err) ==
  /\ dl_success' = [dl_success EXCEPT ![d] = ok]
  /\ last_download_error' = IF err = "keep" THEN last_download_error ELSE err
  /\ own_error' = [own_error EXCEPT ![d] = IF err = "keep" THEN @ ELSE err]
  /\ UNCHANGED last_fixed_url
  /\ dlpc' = [dlpc EXCEPT ![d] = "emit"]
  /\ UNCHANGED attempt

\* the next turn of `for attempt in range(max_attempts)`
DlRetry(d) ==
  /\ attempt' = [attempt EXCEPT ![d] = @ + 1]
  /\ dlpc' = [dlpc EXCEPT ![d] = "attempt"]
  /\ UNCHANGED <<dl_success, own_error, sharedVars>>

\* the error detail the 403 branch leaves for the result message: none,
\* the attempt count goes to logger.debug only
Detail403Counted == "403 Forbidden after max_attempts attempts"
Detail403 == "keep"

\* time.sleep(2 ** attempt) after a 403, time.sleep(5) after a 429, in
\* seconds
Backoff403Flat(a) == 1
Backoff403(a) == 2 ^ a
Backoff429(a) == 5
Wait(resp, a) ==
  [after |-> resp, secs |-> IF resp = "403" THEN Backoff403(a) ELSE Backoff429(a)]

\* whether a link found in an HTML page is fetched: the HTML branch looks
\* for none
FollowsHtmlLink == TRUE
FollowsHtml == FALSE

\* one turn of the attempt loop: the shutdown check, the GET and the
\* handling of its status, up to the opening of the target file. waits
\* takes the sleeps that follow a 403 or a 429 (not the 1 s or 2 s after an
\* exception, nor the random delay before every GET)
DlAttempt(d) ==
  /\ dlpc[d] = "attempt"
  /\ LET job == dl_job[d]
         last == attempt[d] = max_attempts(job) - 1 IN
     IF shutdown_flag
     THEN /\ DlReturn(d, FALSE, "keep")
          /\ UNCHANGED <<files, requests, n403, waits, html_seen, gets>>
     ELSE /\ requests' = requests \cup {<<"download", job>>}
          /\ gets' = [gets EXCEPT ![d] = @ + 1]
          /\ \E resp \in HttpResponses :
               /\ n403' = [n403 EXCEPT ![d] = IF resp = "403" THEN @ + 1 ELSE @]
               /\ waits' = [waits EXCEPT ![d] =
                              IF resp \in {"403", "429"} /\ ~last
                              THEN Append(@, Wait(resp, attempt[d])) ELSE @]
               /\ html_seen' = [html_seen EXCEPT ![d] =
                                  IF resp \in {"html", "html_link"} THEN resp ELSE @]
               /\ CASE resp = "403" ->
                         /\ IF last THEN DlReturn(d, FALSE, Detail403) ELSE DlRetry(d)
                         /\ UNCHANGED files
                    [] resp = "429" ->
                         /\ IF last THEN DlReturn(d, FALSE, "keep") ELSE DlRetry(d)
                         /\ UNCHANGED files
                    [] resp = "http_error" ->
                         /\ IF last THEN DlReturn(d, FALSE, "HTTP error") ELSE DlRetry(d)
                         /\ UNCHANGED files
                    [] resp = "timeout" ->
                         /\ IF last THEN DlReturn(d, FALSE, "Timeout error") ELSE DlRetry(d)
                         /\ UNCHANGED files
                    [] resp \in {"html", "html_link"} ->
                         /\ IF FollowsHtml /\ resp = "html_link"
                            THEN DlRetry(d)
                            ELSE DlReturn(d, FALSE, "Got HTML instead of PDF")
                         /\ UNCHANGED files
                    [] OTHER ->
                         /\ files' = [files EXCEPT ![job] = "empty"]
                         /\ dlpc' = [dlpc EXCEPT ![d] = "stream"]
                         /\ UNCHANGED <<attempt, dl_success, own_error,
                                      sharedVars>>
  /\ UNCHANGED <<shutdown_flag, parts_queue, download_queue,
                 results_queue, mainVars, at_shutdown, apiVars, dl_job, rlVars,
                 authVars, search_calls, callVars,
                 socketVars, progressVars>>

\* the file as the chunk loop leaves it when the body arrives whole
Written(end) ==
  CASE end = "pdf" -> "pdf"
    [] end = "signature" -> "signature"
    [] OTHER -> "partial"
\* header == b'%PDF', the whole of the validation
HeaderUnchecked(end) == TRUE
HeaderIsPDF(end) == end \in {"pdf", "signature"}
\* the target file after a failed validation: os.remove(filepath)
AfterInvalidKept == "partial"
AfterInvalid == "absent"

\* the chunk loop writing the body, then the %PDF validation
DlStream(d) ==
  /\ dlpc[d] = "stream"
  /\ LET job == dl_job[d]
         last == attempt[d] = max_attempts(job) - 1 IN
     IF shutdown_flag
     THEN /\ files' = [files EXCEPT ![job] = "absent"]
          /\ DlReturn(d, FALSE, "keep")
     ELSE \E end \in BodyEnds :
            CASE end \in {"pdf", "signature", "notpdf"} ->
                   IF HeaderIsPDF(end)
                   THEN /\ files' = [files EXCEPT ![job] = Written(end)]
                        /\ DlReturn(d, TRUE, "keep")
                   ELSE /\ files' = [files EXCEPT ![job] = AfterInvalid]
                        /\ DlReturn(d, FALSE, "Invalid PDF content")
              [] end = "validation_raises" ->
                   /\ files' = [files EXCEPT ![job] = AfterInvalid]
                   /\ DlReturn(d, FALSE, "PDF validation error")
              [] OTHER ->
                   /\ files' = [files EXCEPT ![job] =
                                  IF end = "cut_empty" THEN "empty" ELSE "partial"]
                   /\ IF last THEN DlReturn(d, FALSE, "Timeout error") ELSE DlRetry(d)
  /\ UNCHANGED <<shutdown_flag, parts_queue, download_queue,
                 results_queue, mainVars, at_shutdown, apiVars, dl_job, n403,
                 waits, html_seen, gets, requests, rlVars,
                 authVars, search_calls, callVars,
                 socketVars, progressVars>>

\* the message of a download_failed result, from the downloader's
\* last_download_error
FailMessage(err) ==
  IF err # "None" THEN err ELSE "Part found but download blocked"

\* download_worker after download_datasheet returned: one result
DlEmit(d) ==
  /\ dlpc[d] = "emit"
  /\ results_queue' = Append(results_queue,
       IF dl_success[d]
       THEN Result(dl_job[d], "success", FALSE, "")
       ELSE Result(dl_job[d], "download_failed", FALSE,
                   FailMessage(last_download_error)))
  /\ dlpc' = [dlpc EXCEPT ![d] = "loop"]
  /\ dl_job' = [dl_job EXCEPT ![d] = None]
  /\ attempt' = [attempt EXCEPT ![d] = 0]
  /\ n403' = [n403 EXCEPT ![d] = 0]
  /\ dl_success' = [dl_success EXCEPT ![d] = FALSE]
  /\ waits' = [waits EXCEPT ![d] = <<>>]
  /\ html_seen' = [html_seen EXCEPT ![d] = "no"]
  /\ gets' = [gets EXCEPT ![d] = 0]
  /\ own_error' = [own_error EXCEPT ![d] = "None"]
  /\ UNCHANGED <<diskVars, shutdown_flag, parts_queue, download_queue,
                 mainVars, at_shutdown, apiVars, sharedVars, requests, rlVars,
                 authVars, search_calls, callVars,
                 socketVars, progressVars>>

DlStep(d) == DlLoop(d) \/ DlGet(d) \/ DlAttempt(d) \/ DlStream(d) \/ DlEmit(d)

\* an exception that leaves download_datasheet from the code before its
\* attempt loop (_fix_malformed_url, os.makedirs), with the job in hand and
\* nothing put for it yet. The handler of download_worker puts one error
\* result and the loop goes on
DlRaise(d) ==
  /\ dlpc[d] = "attempt"
  /\ attempt[d] = 0
  /\ results_queue' = Append(results_queue,
       Result(dl_job[d], "error", FALSE, "Download worker error"))
  /\ dlpc' = [dlpc EXCEPT ![d] = AfterRaise]
  /\ dl_job' = [dl_job EXCEPT ![d] = None]
  /\ UNCHANGED <<diskVars, shutdown_flag, parts_queue, download_queue,
                 mainVars, at_shutdown, apiVars, attempt, n403, dl_success,
                 waits, html_seen, gets, own_error, sharedVars, requests, rlVars, authVars,
                 search_calls, callVars,
                 socketVars, progressVars>>

\* ------------------------------------------------ the GET and the socket timeout
\* The GET of one turn of the attempt loop, statement by statement, for a
\* download worker with its job in hand. DlAttempt takes these statements
\* as one step.
\* old_socket_timeout = socket.getdefaulttimeout()
SockSave(d) ==
  /\ dlpc[d] = "attempt"
  /\ sockpc[d] = "idle"
  /\ gets[d] < max_attempts(dl_job[d])
  /\ old_timeout' = [old_timeout EXCEPT ![d] = default_timeout]
  /\ sockpc' = [sockpc EXCEPT ![d] = "saved"]
  /\ UNCHANGED <<default_timeout, diskVars, shutdown_flag, parts_queue,
                 download_queue, results_queue, mainVars, at_shutdown,
                 apiVars, dlVars, sharedVars, requests, rlVars, authVars,
                 search_calls, callVars, progressVars>>

\* socket.setdefaulttimeout(15), or (10) for a problematic domain, and the
\* GET is sent
SockSet(d) ==
  /\ sockpc[d] = "saved"
  /\ default_timeout' = IF dl_job[d] \in ProblematicParts
                        THEN PROBLEMATIC_SOCKET_TIMEOUT ELSE SOCKET_TIMEOUT
  /\ sockpc' = [sockpc EXCEPT ![d] = "set"]
  /\ gets' = [gets EXCEPT ![d] = @ + 1]
  /\ requests' = requests \cup {<<"download", dl_job[d]>>}
  /\ UNCHANGED <<old_timeout, diskVars, shutdown_flag, parts_queue,
                 download_queue, results_queue, mainVars, at_shutdown,
                 apiVars, dlpc, dl_job, attempt, n403, dl_success, waits,
                 html_seen, own_error, sharedVars, rlVars, authVars,
                 search_calls, callVars, progressVars>>

\* the GET is over, with a response or an exception:
\* `finally: socket.setdefaulttimeout(old_socket_timeout)`
Restores(d) == old_timeout[d]
SockRestore(d) ==
  /\ sockpc[d] = "set"
  /\ default_timeout' = Restores(d)
  /\ sockpc' = [sockpc EXCEPT ![d] = "idle"]
  /\ UNCHANGED <<old_timeout, diskVars, shutdown_flag, parts_queue,
                 download_queue, results_queue, mainVars, at_shutdown,
                 apiVars, dlVars, sharedVars, requests, rlVars, authVars,
                 search_calls, callVars, progressVars>>

\* ------------------------------------------------------------------ run
\* the list of `results` a status is appended to
Category(status) ==
  IF status \in {"success", "no_datasheet", "not_found", "download_failed"}
  THEN status ELSE "errors"

\* len(parts): every part of the list has its target file name
LenParts == Cardinality(DOMAIN files)
\* `while completed_count < len(parts) and not shutdown_flag.is_set()`
LoopConditionOffByOne == completed_count < LenParts - 1 /\ ~shutdown_flag
LoopCondition == completed_count < LenParts /\ ~shutdown_flag

\* the branch of the categorization that counts a consecutive error: the
\* final `else`, taken by the results that go to results['errors']
CountsErrorOrFailed(c) == c \in {"errors", "download_failed"}
CountsError(c) == c = "errors"

MainLoop ==
  /\ mainpc = "drain"
  /\ mainpc' = IF LoopCondition THEN "get" ELSE "signal"
  /\ UNCHANGED <<diskVars, shutdown_flag, parts_queue, download_queue,
                 results_queue, results, completed_count, consecutive_errors,
                 at_shutdown, apiVars, dlVars, sharedVars, requests, rlVars,
                 authVars, search_calls, callVars,
                 socketVars, progressVars>>

\* results_queue.get(timeout=1): a result is counted and categorized; the
\* PAUSE_AFTER_ERRORS-th error in a row starts time.sleep(30) in this
\* thread. On queue.Empty the loop breaks when the API worker stopped and
\* both queues are empty, and otherwise is back at its condition and, while
\* that holds, in get() again.
MainGet ==
  /\ mainpc = "get"
  /\ IF results_queue = <<>>
     THEN /\ \/ ~is_running[LastAPIWorker] /\ parts_queue = <<>>
                   /\ download_queue = <<>>
             \/ ~LoopCondition
          /\ mainpc' = "signal"
          /\ UNCHANGED <<results_queue, results, completed_count,
                         consecutive_errors>>
     ELSE LET r == Head(results_queue)
              c == Category(r.status) IN
          /\ results_queue' = Tail(results_queue)
          /\ completed_count' = completed_count + 1
          /\ results' = [results EXCEPT ![c] = Append(@, r)]
          /\ consecutive_errors' =
               IF CountsError(c) THEN consecutive_errors + 1 ELSE 0
          /\ mainpc' = IF CountsError(c)
                          /\ consecutive_errors + 1 >= PAUSE_AFTER_ERRORS
                       THEN "pause" ELSE "drain"
  /\ UNCHANGED <<diskVars, shutdown_flag, parts_queue, download_queue,
                 at_shutdown, apiVars, dlVars, sharedVars, requests, rlVars,
                 authVars, search_calls, callVars,
                 socketVars, progressVars>>

\* after the loop: shutdown_flag.set(), stop() of every API worker, one
\* sentinel per download worker
MainSignal ==
  /\ mainpc = "signal"
  /\ shutdown_flag' = TRUE
  /\ at_shutdown' = IF shutdown_flag THEN at_shutdown ELSE Snapshot
  /\ is_running' = [w \in APIWorkers |-> FALSE]
  /\ download_queue' = download_queue \o [i \in 1..Cardinality(StartedDL) |-> None]
  /\ mainpc' = "wait"
  /\ UNCHANGED <<diskVars, parts_queue, results_queue, results,
                 completed_count, consecutive_errors, apipc, api_item,
                 has_token, dlVars, sharedVars, requests, rlVars,
                 authVars, search_calls, callVars,
                 socketVars, progressVars>>

\* _save_report: the lines of report.csv after the header, one loop per
\* list of `results`, each list in its own order
save_report_errors_first(res) ==
  res["errors"] \o res["success"] \o res["no_datasheet"] \o res["not_found"]
    \o res["download_failed"]
save_report(res) ==
  res["success"] \o res["no_datasheet"] \o res["not_found"]
    \o res["download_failed"] \o res["errors"]

\* ------------------------------------------------------- the progress bar
\* The calls of ProgressBar.update and update_worker_status, statement by
\* statement. The pipeline actions take each call as part of their step.
\* what a worker passes as status: the first and the last one of its loop
WorkerStatuses(w) ==
  IF w = "API-Worker" THEN {"Checking", "Stopped"}
  ELSE {"Downloading", "Stopped"}

\* `with self.lock:` is entered when no thread holds the lock
LockAlwaysFree == TRUE
LockFree == progress_lock = "free"

\* a worker calls progress.update_worker_status(worker_id, ...)
ProgCall(w) ==
  /\ progpc[w] = "out"
  /\ progpc' = [progpc EXCEPT ![w] = "wait"]
  /\ UNCHANGED <<current, progress_lock, worker_status, displayed, diskVars,
                 shutdown_flag, parts_queue, download_queue, results_queue,
                 mainVars, at_shutdown, apiVars, dlVars, sharedVars, requests,
                 rlVars, authVars, search_calls, callVars, socketVars>>

\* the drain loop takes a result, counts and categorizes it, and calls
\* progress.update
ProgDrain ==
  /\ mainpc = "get"
  /\ progpc["main"] = "out"
  /\ LoopCondition
  /\ results_queue # <<>>
  /\ LET r == Head(results_queue)
         c == Category(r.status) IN
       /\ results_queue' = Tail(results_queue)
       /\ completed_count' = completed_count + 1
       /\ results' = [results EXCEPT ![c] = Append(@, r)]
       /\ consecutive_errors' =
            IF CountsError(c) THEN consecutive_errors + 1 ELSE 0
  /\ progpc' = [progpc EXCEPT !["main"] = "wait"]
  /\ UNCHANGED <<current, progress_lock, worker_status, displayed, diskVars,
                 shutdown_flag, parts_queue, download_queue, mainpc,
                 at_shutdown, apiVars, dlVars, sharedVars, requests,
                 rlVars, authVars, search_calls, callVars, socketVars>>

\* `with self.lock:` of update, update_worker_status
ProgAcquire(t) ==
  /\ progpc[t] = "wait"
  /\ LockFree
  /\ progress_lock' = t
  /\ progpc' = [progpc EXCEPT ![t] = "in"]
  /\ UNCHANGED <<current, worker_status, displayed, diskVars,
                 shutdown_flag, parts_queue, download_queue, results_queue,
                 mainVars, at_shutdown, apiVars, dlVars, sharedVars, requests,
                 rlVars, authVars, search_calls, callVars, socketVars>>

\* update: self.current += 1, then _refresh_display reads worker_status
ProgUpdate ==
  /\ progpc["main"] = "in"
  /\ current' = current + 1
  /\ displayed' = worker_status
  /\ progpc' = [progpc EXCEPT !["main"] = "exit"]
  /\ UNCHANGED <<progress_lock, worker_status, diskVars,
                 shutdown_flag, parts_queue, download_queue, results_queue,
                 mainVars, at_shutdown, apiVars, dlVars, sharedVars, requests,
                 rlVars, authVars, search_calls, callVars, socketVars>>

\* update_worker_status: self.worker_status[worker_id] = {...}
ProgWriteStatus(w) ==
  /\ progpc[w] = "in"
  /\ \E s \in WorkerStatuses(w) :
       worker_status' = [worker_status EXCEPT ![w] = s]
  /\ progpc' = [progpc EXCEPT ![w] = "exit"]
  /\ UNCHANGED <<current, progress_lock, displayed, diskVars,
                 shutdown_flag, parts_queue, download_queue, results_queue,
                 mainVars, at_shutdown, apiVars, dlVars, sharedVars, requests,
                 rlVars, authVars, search_calls, callVars, socketVars>>

\* the end of the `with` block
ProgRelease(t) ==
  /\ progpc[t] = "exit"
  /\ progress_lock' = "free"
  /\ progpc' = [progpc EXCEPT ![t] = "out"]
  /\ UNCHANGED <<current, worker_status, displayed, diskVars,
                 shutdown_flag, parts_queue, download_queue, results_queue,
                 mainVars, at_shutdown, apiVars, dlVars, sharedVars, requests,
                 rlVars, authVars, search_calls, callVars, socketVars>>

\* ------------------------------------------------------ the end of run
\* the executor's `with` block ends when every download worker returned;
\* then the summary and _save_report(results)
MainReport ==
  /\ mainpc = "wait"
  /\ \A d \in StartedDL : dlpc[d] = "stopped"
  /\ mainpc' = "done"
  /\ UNCHANGED <<diskVars, shutdown_flag, parts_queue, download_queue,
                 results_queue, results, completed_count, consecutive_errors,
                 at_shutdown, apiVars, dlVars, sharedVars, requests, rlVars,
                 authVars, search_calls, callVars,
                 socketVars, progressVars>>

MainStep == MainLoop \/ MainGet \/ MainSignal \/ MainReport

\* time.sleep(30) is over: the counter is reset and the loop goes on. The
\* sleep starts only in a run that has drained PAUSE_AFTER_ERRORS errors
MainWake ==
  /\ mainpc = "pause"
  /\ consecutive_errors' = 0
  /\ mainpc' = "drain"
  /\ UNCHANGED <<diskVars, shutdown_flag, parts_queue, download_queue,
                 results_queue, results, completed_count,
                 at_shutdown, apiVars, dlVars, sharedVars, requests, rlVars,
                 authVars, search_calls, callVars,
                 socketVars, progressVars>>

\* signal_handler: the first SIGINT sets shutdown_flag
Interrupt ==
  /\ mainpc \in {"drain", "get"}
  /\ ~shutdown_flag
  /\ shutdown_flag' = TRUE
  /\ at_shutdown' = Snapshot
  /\ UNCHANGED <<diskVars, parts_queue, download_queue, results_queue,
                 mainVars, apiVars, dlVars, sharedVars, requests, rlVars,
                 authVars, search_calls, callVars,
                 socketVars, progressVars>>

\* ------------------------------------------------------- authentication
\* what the token endpoint answers, and the expires_in of a 200 (absent:
\* the default)
TokenResponses == {"200", "429", "other", "exception"}
ExpiresIn == {90, DEFAULT_EXPIRES_IN}

\* `with self.session_lock` in _ensure_authenticated; the worker's
\* _ensure_worker_authenticated takes no lock
UsesNoLock(h) == FALSE
UsesLock(h) == h = "downloader"

\* not self.access_token or datetime.now() >= self.token_expiry
NeedsFetchLate(h) == access_token[h] = None \/ now > token_expiry[h]
NeedsFetch(h) == access_token[h] = None \/ now >= token_expiry[h]

\* _ensure_authenticated / _ensure_worker_authenticated up to the POST to
\* the token endpoint, or to `return True` when the token is still good
AuthCall(t, h) ==
  /\ authpc[t] = "idle"
  /\ t \in CallersOf(h)
  /\ UsesLock(h) => session_lock = None
  /\ IF NeedsFetch(h)
     THEN /\ token_posts < MaxPosts
          /\ token_posts' = token_posts + 1
          /\ authpc' = [authpc EXCEPT ![t] = "fetch"]
          /\ auth_req' = [auth_req EXCEPT ![t] =
                            [holder |-> h, gen |-> access_token[h], wake |-> 0]]
          /\ session_lock' = IF UsesLock(h) THEN t ELSE session_lock
          /\ auth_ret' = [auth_ret EXCEPT ![t] = "none"]
     ELSE /\ auth_ret' = [auth_ret EXCEPT ![t] = "held"]
          /\ UNCHANGED <<token_posts, authpc, auth_req, session_lock>>
  /\ UNCHANGED <<access_token, token_expiry, token_ok, diskVars,
                 shutdown_flag, parts_queue, download_queue, results_queue,
                 mainVars, at_shutdown, apiVars, dlVars, sharedVars,
                 requests, rlVars, search_calls, callVars,
                 socketVars, progressVars>>

\* authenticate / authenticate_worker from the answer on: a 200 stores the
\* token and its expiry, a 429 starts time.sleep(60), anything else
\* returns False
AuthResponse(t) ==
  /\ authpc[t] = "fetch"
  /\ LET h == auth_req[t].holder IN
     \E resp \in TokenResponses, expires_in \in ExpiresIn :
       CASE resp = "200" ->
              /\ access_token' = [access_token EXCEPT ![h] = token_posts]
              /\ token_expiry' = [token_expiry EXCEPT ![h] =
                                    now + expires_in - EXPIRY_MARGIN]
              /\ token_ok' = token_ok
                   \cup {[holder |-> h, gen |-> auth_req[t].gen, thread |-> t]}
              /\ authpc' = [authpc EXCEPT ![t] = "idle"]
              /\ auth_req' = [auth_req EXCEPT ![t] = NoRequest]
              /\ auth_ret' = [auth_ret EXCEPT ![t] = "fetched"]
              /\ session_lock' = IF session_lock = t THEN None ELSE session_lock
         [] resp = "429" ->
              /\ authpc' = [authpc EXCEPT ![t] = "sleep"]
              /\ auth_req' = [auth_req EXCEPT ![t].wake = now + THROTTLE_SLEEP]
              /\ UNCHANGED <<access_token, token_expiry, token_ok, auth_ret,
                             session_lock>>
         [] OTHER ->
              /\ authpc' = [authpc EXCEPT ![t] = "idle"]
              /\ auth_req' = [auth_req EXCEPT ![t] = NoRequest]
              /\ auth_ret' = [auth_ret EXCEPT ![t] = "failed"]
              /\ session_lock' = IF session_lock = t THEN None ELSE session_lock
              /\ UNCHANGED <<access_token, token_expiry, token_ok>>
  /\ UNCHANGED <<token_posts, diskVars, shutdown_flag, parts_queue,
                 download_queue, results_queue, mainVars, at_shutdown,
                 apiVars, dlVars, sharedVars, requests, rlVars, search_calls, callVars,
                 socketVars, progressVars>>

\* the sleep after the 429 is over: return False
AuthWake(t) ==
  /\ authpc[t] = "sleep"
  /\ now >= auth_req[t].wake
  /\ authpc' = [authpc EXCEPT ![t] = "idle"]
  /\ auth_req' = [auth_req EXCEPT ![t] = NoRequest]
  /\ auth_ret' = [auth_ret EXCEPT ![t] = "throttled"]
  /\ session_lock' = IF session_lock = t THEN None ELSE session_lock
  /\ UNCHANGED <<access_token, token_expiry, token_ok, token_posts, diskVars,
                 shutdown_flag, parts_queue, download_queue, results_queue,
                 mainVars, at_shutdown, apiVars, dlVars, sharedVars,
                 requests, rlVars, search_calls, callVars,
                 socketVars, progressVars>>

\* ------------------------------------------------ _search_part_with_headers
\* the ids _find_manufacturer_variants can return for a hint, best first:
\* the first n of its ranking, none when there is no hint or no table
Ranking == [i \in 1..MAX_VARIANTS |-> i]
Candidates == {SubSeq(Ranking, 1, n) : n \in 0..MAX_VARIANTS}
\* the answers to the keyword search: 429, 404, another error status or an
\* exception, no product, products with one whose number is the part number,
\* several products none of which is (the search is ambiguous)
SearchResponses == {"429", "404", "error", "empty", "exact", "several"}

\* search_data["Filters"]["ManufacturerIds"] = manufacturer_ids[:3]
FilterOf(cands) ==
  SubSeq(cands, 1, IF Len(cands) < FILTER_IDS THEN Len(cands) ELSE FILTER_IDS)
\* the POSTs one call sends, each by its manufacturer filter: the one POST
\* of _try_general_search, whatever the answer
Posts(cands, resp) == <<FilterOf(cands)>>

\* what _try_general_search returns for an answer: the product picked by
\* _find_best_match, None after the 60 s sleep of a 429, None when
\* raise_for_status raised (the HTTPError is swallowed) or no product came
Returned(resp) == IF resp \in {"exact", "several"} THEN "product" ELSE "none"
\* the outcome as _run tells the cases apart (SearchOutcomes); late is
\* `time.time() - part_start_time > max_part_time`, which the 60 s sleep of
\* a 429 makes true and a long wait in wait_if_needed can
RunOutcomeRaising(resp, has_url, late) ==
  IF resp \in {"404", "error"} THEN "raise" ELSE "none"
RunOutcome(resp, has_url, late) ==
  IF late THEN "slow"
  ELSE IF Returned(resp) = "none" THEN "none"
  ELSE IF has_url THEN "product_url" ELSE "product_nourl"

\* one call of _search_part_with_headers for a part of _run:
\* _try_general_search sends its POST and returns _find_best_match's
\* product when there are products; status and job are what _run then puts
GeneralSearch ==
  /\ Len(search_calls) < MaxSearches
  /\ \E part \in Parts, cands \in Candidates, resp \in SearchResponses,
        has_url \in BOOLEAN, late \in BOOLEAN :
       /\ (Returned(resp) = "none" => has_url = FALSE)
       /\ (resp = "429" => late)
       /\ search_calls' = Append(search_calls,
            [part |-> part, cands |-> cands, resp |-> resp,
             posts |-> Posts(cands, resp), returned |-> Returned(resp),
             has_url |-> has_url, late |-> late,
             status |-> IF PutsResult(RunOutcome(resp, has_url, late))
                        THEN SearchResult(part,
                                          RunOutcome(resp, has_url, late)).status
                        ELSE "none",
             job |-> QueuesJob(RunOutcome(resp, has_url, late))])
  /\ UNCHANGED <<diskVars, shutdown_flag, parts_queue, download_queue,
                 results_queue, mainVars, at_shutdown, apiVars, dlVars,
                 sharedVars, requests, rlVars, authVars, callVars,
                 socketVars, progressVars>>

\* --------------------------------------------------------- _find_best_match
\* the characters of a part number: a letter in both cases and another one
Chars == {"a", "A", "b"}
\* str.upper() on one character, and on a string
Upper(c) ==
  IF c = "a" THEN "A" ELSE IF c = "b" THEN "B"
  ELSE IF c = "t" THEN "T" ELSE IF c = "i" THEN "I" ELSE c
upper(str) == [i \in 1..Len(str) |-> Upper(str[i])]
\* str.startswith(prefix)
startswith(str, prefix) ==
  Len(prefix) <= Len(str) /\ SubSeq(str, 1, Len(prefix)) = prefix
\* `sub in str`
Contains(str, sub) ==
  \E i \in 0..(Len(str) - Len(sub)) : SubSeq(str, i + 1, i + Len(sub)) = sub

StringsUpTo(n) == UNION {[1..k -> Chars] : k \in 0..n}
\* a product of the answer: mfr_pn is what
\* `product.get('ManufacturerPartNumber', '') or
\*  product.get('ManufacturerProductNumber', '')` gives, has_url is the truth
\* value of product.get('DatasheetUrl')
ProductStatuses == {"Active", "Obsolete"}
Products ==
  [mfr_pn : StringsUpTo(MaxPnLen), ProductStatus : ProductStatuses,
   has_url : BOOLEAN]
ProductLists == UNION {[1..k -> Products] : k \in 0..MaxProducts}
\* the part numbers load_parts_list lets through: not empty
PartNumbers == StringsUpTo(MaxPnLen) \ {<<>>}

\* the tests of the three loops
IsExact(product, original_part) ==
  /\ product.mfr_pn # <<>>
  /\ upper(product.mfr_pn) = upper(original_part)
IsPrefixMatchOneWay(product, original_part) ==
  /\ product.mfr_pn # <<>>
  /\ startswith(upper(product.mfr_pn), upper(original_part))
IsPrefixMatch(product, original_part) ==
  /\ product.mfr_pn # <<>>
  /\ \/ startswith(upper(product.mfr_pn), upper(original_part))
     \/ startswith(upper(original_part), upper(product.mfr_pn))
IsActiveWithDatasheet(product) ==
  product.ProductStatus = "Active" /\ product.has_url

\* `for product in products: if test: return product`, from position i on:
\* the position of the product returned, 0 when the loop ends without one
RECURSIVE FirstExact(_, _, _)
FirstExact(original_part, products, i) ==
  IF i > Len(products) THEN 0
  ELSE IF IsExact(products[i], original_part) THEN i
  ELSE FirstExact(original_part, products, i + 1)
RECURSIVE FirstPrefix(_, _, _)
FirstPrefix(original_part, products, i) ==
  IF i > Len(products) THEN 0
  ELSE IF IsPrefixMatch(products[i], original_part) THEN i
  ELSE FirstPrefix(original_part, products, i + 1)
RECURSIVE FirstActive(_, _)
FirstActive(products, i) ==
  IF i > Len(products) THEN 0
  ELSE IF IsActiveWithDatasheet(products[i]) THEN i
  ELSE FirstActive(products, i + 1)

\* the position in products of the product returned, 0 for None
find_best_match(original_part, products) ==
  IF FirstExact(original_part, products, 1) # 0
  THEN FirstExact(original_part, products, 1)
  ELSE IF FirstPrefix(original_part, products, 1) # 0
  THEN FirstPrefix(original_part, products, 1)
  ELSE IF FirstActive(products, 1) # 0
  THEN FirstActive(products, 1)
  ELSE IF products # <<>> THEN 1
  ELSE 0

\* _find_best_match called on a part number and the products of an answer
InitBestMatch ==
  /\ files = [p \in Parts |-> "absent"]
  /\ RunInit(2, 1)
  /\ RLInit
  /\ call_in \in [fn : {"_find_best_match"}, original_part : PartNumbers,
                  products : ProductLists]
  /\ call_out = [done |-> FALSE]

BestMatchCall ==
  /\ call_in.fn = "_find_best_match"
  /\ ~call_out.done
  /\ call_out' = [done |-> TRUE,
                  value |-> find_best_match(call_in.original_part,
                                            call_in.products)]
  /\ UNCHANGED <<diskVars, shutdown_flag, parts_queue, download_queue,
                 results_queue, mainVars, at_shutdown, apiVars, dlVars,
                 sharedVars, requests, rlVars, authVars, search_calls,
                 call_in, socketVars, progressVars>>

\* ------------------------------------------------- _find_manufacturer_variants
\* str.strip(): spaces off both ends
RECURSIVE lstrip(_)
lstrip(str) ==
  IF str # <<>> /\ Head(str) = " " THEN lstrip(Tail(str)) ELSE str
RECURSIVE rstrip(_)
rstrip(str) ==
  IF str # <<>> /\ str[Len(str)] = " "
  THEN rstrip(SubSeq(str, 1, Len(str) - 1)) ELSE str
strip(str) == rstrip(lstrip(str))
\* str.split(): the words between runs of spaces; word is the one being read
RECURSIVE SplitFrom(_, _)
SplitFrom(str, word) ==
  LET done == IF word = <<>> THEN <<>> ELSE <<word>> IN
  IF str = <<>> THEN done
  ELSE IF Head(str) = " " THEN done \o SplitFrom(Tail(str), <<>>)
  ELSE SplitFrom(Tail(str), Append(word, Head(str)))
split(str) == SplitFrom(str, <<>>)
\* ''.join(part[0] for part in parts)
FirstLetters(parts) == [i \in 1..Len(parts) |-> parts[i][1]]

\* self.manufacturers, a dict in the order of manufacturers.json: name in
\* manufacturers, and manufacturers[name]
InDirectory(manufacturers, name) ==
  \E i \in 1..Len(manufacturers) : manufacturers[i].name = name
IdOf(manufacturers, name) ==
  manufacturers[CHOOSE i \in 1..Len(manufacturers) :
                  manufacturers[i].name = name].id
\* `if mfr_id not in matches: matches.append(mfr_id)`
PrependNew(matches, mfr_id) ==
  IF mfr_id \in Range(matches) THEN matches ELSE <<mfr_id>> \o matches
AppendNew(matches, mfr_id) ==
  IF mfr_id \in Range(matches) THEN matches ELSE Append(matches, mfr_id)

\* the search terms the acquisition mappings add, from mapping i on
RECURSIVE MappedTerms(_, _, _)
MappedTerms(name_upper, mappings, i) ==
  IF i > Len(mappings) THEN <<>>
  ELSE
    LET key == mappings[i].key
        variations == mappings[i].variations
        NotTheName(v) == v # name_upper
    IN  (IF name_upper = key \/ Contains(name_upper, key)
         THEN variations
         ELSE IF \E j \in 1..Len(variations) :
                   Contains(name_upper, variations[j])
         THEN <<key>> \o SelectSeq(variations, NotTheName)
         ELSE <<>>)
        \o MappedTerms(name_upper, mappings, i + 1)
SearchTerms(name_upper, mappings) ==
  <<name_upper>> \o MappedTerms(name_upper, mappings, 1)

\* 1. the ids of the search terms that are in the directory
RECURSIVE AddTerms(_, _, _, _)
AddTerms(matches, terms, manufacturers, i) ==
  IF i > Len(terms) THEN matches
  ELSE AddTerms(IF InDirectory(manufacturers, terms[i])
                THEN AppendNew(matches, IdOf(manufacturers, terms[i]))
                ELSE matches,
                terms, manufacturers, i + 1)
\* 2. the exact match
AddExact(matches, name_upper, manufacturers) ==
  IF InDirectory(manufacturers, name_upper)
  THEN AppendNew(matches, IdOf(manufacturers, name_upper))
  ELSE matches
\* 3. the close matches, until there are MAX_VARIANTS ids
RECURSIVE AddClose(_, _, _, _)
AddClose(matches, close_matches, manufacturers, i) ==
  IF i > Len(close_matches) THEN matches
  ELSE
    LET mfr_id == IdOf(manufacturers, close_matches[i]) IN
    IF mfr_id \in Range(matches)
    THEN AddClose(matches, close_matches, manufacturers, i + 1)
    ELSE IF Len(matches) + 1 >= MAX_VARIANTS THEN Append(matches, mfr_id)
    ELSE AddClose(Append(matches, mfr_id), close_matches, manufacturers, i + 1)
\* 4. the tests of the last loop on one directory name
IsSubstringMatch(name_upper, mfr_name) ==
  /\ Contains(mfr_name, name_upper) \/ Contains(name_upper, mfr_name)
  /\ Len(name_upper) > 2
IsInitialsMatch(name_upper, mfr_name) ==
  LET name_parts == split(name_upper)
      mfr_parts == split(mfr_name)
  IN  IF Len(name_parts) = 1 /\ Len(name_parts[1]) <= 4
      THEN /\ Len(mfr_parts) >= Len(name_parts[1])
           /\ FirstLetters(SubSeq(mfr_parts, 1, Len(name_parts[1])))
                = name_parts[1]
      ELSE IF Len(name_parts) > 1
      THEN \/ Contains(mfr_name, FirstLetters(name_parts))
           \/ mfr_name = FirstLetters(name_parts)
      ELSE FALSE
\*    the loop itself: an id can be appended by both tests of one pass
RECURSIVE AddPartial(_, _, _, _)
AddPartial(matches, name_upper, manufacturers, i) ==
  IF i > Len(manufacturers) THEN matches
  ELSE
    LET mfr_name == manufacturers[i].name
        mfr_id == manufacturers[i].id
        sub == IsSubstringMatch(name_upper, mfr_name)
        ini == IsInitialsMatch(name_upper, mfr_name)
        m1 == IF sub THEN Append(matches, mfr_id) ELSE matches
        m2 == IF ini THEN Append(m1, mfr_id) ELSE m1
    IN  IF mfr_id \in Range(matches)
        THEN AddPartial(matches, name_upper, manufacturers, i + 1)
        ELSE IF sub /\ Len(m1) >= MAX_VARIANTS THEN m1
        ELSE IF ini /\ Len(m2) >= MAX_VARIANTS THEN m2
        ELSE AddPartial(m2, name_upper, manufacturers, i + 1)
\* `unique_matches`: duplicates removed, order kept
UniqueKeepsAll(matches, i) == matches
RECURSIVE Unique(_, _)
Unique(matches, i) ==
  IF i > Len(matches) THEN <<>>
  ELSE (IF \E j \in 1..(i - 1) : matches[j] = matches[i]
        THEN <<>> ELSE <<matches[i]>>) \o Unique(matches, i + 1)
FirstN(seq, n) == SubSeq(seq, 1, IF Len(seq) < n THEN Len(seq) ELSE n)

\* the list before step 3, before step 4 and before the duplicates go
MatchesAfterExact(call) ==
  LET name_upper == strip(upper(call.manufacturer_name)) IN
  AddExact(AddTerms(<<>>, SearchTerms(name_upper, call.acquisition_mappings),
                    call.manufacturers, 1),
           name_upper, call.manufacturers)
MatchesAfterClose(call) ==
  IF Len(MatchesAfterExact(call)) < MAX_VARIANTS
  THEN AddClose(MatchesAfterExact(call), call.close_matches,
                call.manufacturers, 1)
  ELSE MatchesAfterExact(call)
MatchesAfterPartial(call) ==
  IF Len(MatchesAfterClose(call)) < MAX_VARIANTS
  THEN AddPartial(MatchesAfterClose(call),
                  strip(upper(call.manufacturer_name)), call.manufacturers, 1)
  ELSE MatchesAfterClose(call)
find_manufacturer_variants(call) ==
  IF call.manufacturer_name = <<>> \/ call.manufacturers = <<>> THEN <<>>
  ELSE FirstN(Unique(MatchesAfterPartial(call), 1), MAX_VARIANTS)

\* the names of the tables followed, as manufacturers.json holds them after
\* _load_manufacturers: directory names in upper case
TI == <<"T", "I">>
TX_IN == <<"T", "X", " ", "I", "N">>
NAT == <<"N", "A", "T">>
TXA == <<"T", "X", "A">>
TX == <<"T", "X">>
IN_ == <<"I", "N">>
TX_INC == <<"T", "X", " ", "I", "N", "C">>
\* the directory entries in the order of the file; two names share an id
DirectoryPool ==
  <<[name |-> TI, id |-> 1], [name |-> TX_IN, id |-> 2],
    [name |-> NAT, id |-> 3], [name |-> TXA, id |-> 4],
    [name |-> TX, id |-> 5], [name |-> IN_, id |-> 6],
    [name |-> TX_INC, id |-> 2]>>
\* the entries of seq at the positions in keep, in their order
RECURSIVE Pick(_, _, _)
Pick(seq, keep, i) ==
  IF i > Len(seq) THEN <<>>
  ELSE (IF i \in keep THEN <<seq[i]>> ELSE <<>>) \o Pick(seq, keep, i + 1)
Directories ==
  {Pick(DirectoryPool, keep, 1) : keep \in SUBSET (1..Len(DirectoryPool))}
\* AcquisitionMappings: a key and its variations, in the order of the file
MappingTI == [key |-> TI, variations |-> <<TX_IN, NAT, TXA, TX>>]
MappingT == [key |-> <<"T">>, variations |-> <<IN_>>]
MappingTables ==
  {<<>>, <<MappingTI>>, <<MappingT>>, <<MappingTI, MappingT>>,
   <<MappingT, MappingTI>>}
\* the manufacturer names of the parts list
ManufacturerNames ==
  {<<>>, <<"t", "i">>, TX_IN, <<"T", "X", "A", " ">>,
   <<"I", "N", " ", "N">>}
\* what difflib.get_close_matches(name_upper, names, n=10, cutoff=0.6) can
\* answer: directory names, none twice, best first; a name equal to
\* name_upper has ratio 1.0 and is the first of them
CloseMatches(name_upper, manufacturers) ==
  LET names == {manufacturers[i].name : i \in 1..Len(manufacturers)}
      lists == UNION {[1..k -> names] : k \in 0..MaxClose}
  IN  {l \in lists :
         /\ \A i, j \in 1..Len(l) : i # j => l[i] # l[j]
         /\ name_upper \in names => (l # <<>> /\ l[1] = name_upper)}

\* _find_manufacturer_variants called on a name, with the tables loaded
InitVariants ==
  /\ files = [p \in Parts |-> "absent"]
  /\ RunInit(2, 1)
  /\ RLInit
  /\ \E manufacturer_name \in ManufacturerNames, manufacturers \in Directories,
        acquisition_mappings \in MappingTables :
       \E close_matches \in CloseMatches(strip(upper(manufacturer_name)),
                                         manufacturers) :
         call_in = [fn |-> "_find_manufacturer_variants",
                    manufacturer_name |-> manufacturer_name,
                    manufacturers |-> manufacturers,
                    acquisition_mappings |-> acquisition_mappings,
                    close_matches |-> close_matches]
  /\ call_out = [done |-> FALSE]

VariantsCall ==
  /\ call_in.fn = "_find_manufacturer_variants"
  /\ ~call_out.done
  /\ call_out' = [done |-> TRUE, value |-> find_manufacturer_variants(call_in)]
  /\ UNCHANGED <<diskVars, shutdown_flag, parts_queue, download_queue,
                 results_queue, mainVars, at_shutdown, apiVars, dlVars,
                 sharedVars, requests, rlVars, authVars, search_calls,
                 call_in, socketVars, progressVars>>

\* ------------------------------------------------------ sanitize_filename
\* the characters of the part numbers followed: a letter, one of the
\* invalid_chars, the character they are replaced by, one that is stripped
FileChars == {"A", "/", "_", "."}
invalid_chars == {"/", "\\", ":", "*", "?", "\"", "<", ">", "|"}
\* str.rstrip('. ')
RECURSIVE rstrip_dots(_)
rstrip_dots(str) ==
  IF str # <<>> /\ str[Len(str)] \in {".", " "}
  THEN rstrip_dots(SubSeq(str, 1, Len(str) - 1)) ELSE str
sanitize_filename(filename) ==
  FirstN(rstrip_dots([i \in 1..Len(filename) |->
                        IF filename[i] \in invalid_chars THEN "_"
                        ELSE filename[i]]),
         MAX_FILENAME)
\* sanitize_filename(f"{internal_pn} {manufacturer_pn}") + ".pdf"
TargetFilename(part) ==
  sanitize_filename(part.internal_pn \o <<" ">> \o part.manufacturer_pn)
    \o <<".", "p", "d", "f">>

\* the rows load_parts_list returns: both numbers not empty, nothing else
\* asked of them, no row left out
PartRows ==
  [internal_pn : UNION {[1..k -> FileChars] : k \in 1..MaxPnLen},
   manufacturer_pn : UNION {[1..k -> FileChars] : k \in 1..MaxPnLen}]
InitFill ==
  /\ files = [p \in Parts |-> "absent"]
  /\ RunInit(2, 1)
  /\ RLInit
  /\ call_in \in [fn : {"fill"}, parts : [1..NumParts -> PartRows]]
  /\ call_out = [done |-> FALSE]

\* `for part in parts: parts_queue.put(part)`: the value is the target file
\* name of each part put, in the order of the queue
FillQueue ==
  /\ call_in.fn = "fill"
  /\ ~call_out.done
  /\ call_out' = [done |-> TRUE,
                  value |-> [i \in 1..Len(call_in.parts) |->
                               TargetFilename(call_in.parts[i])]]
  /\ UNCHANGED <<diskVars, shutdown_flag, parts_queue, download_queue,
                 results_queue, mainVars, at_shutdown, apiVars, dlVars,
                 sharedVars, requests, rlVars, authVars, search_calls,
                 call_in, socketVars, progressVars>>

\* ------------------------------------------------------- SimpleRateLimiter
\* self.rate_limiter of API worker w: APIWorker.__init__ builds one limiter
\* per worker; limiters are named by the worker that built them
SharedRateLimiter(w) == 1
RateLimiterOf(w) == w

\* [t for t in self.request_times if now - t < 60]
Evict(times, t0) == SelectSeq(times, LAMBDA t : t0 - t < WINDOW)
\* min(self.request_times)
Oldest(times) == CHOOSE t \in Range(times) : \A u \in Range(times) : t <= u
\* 60 - (now - oldest) + 1
WaitTime(times, t0) == WINDOW - (t0 - Oldest(times)) + WAIT_MARGIN
CallsMade == Len(issued[1]) + Len(issued[2])

\* wait_if_needed from `with self.lock` to the sleep, or to its return when
\* there is nothing to wait for: now is read, the list is filtered, and with
\* room left now is appended and the caller sends its request
WaitIfNeeded(w) ==
  LET l == RateLimiterOf(w)
      kept == Evict(request_times[l], now) IN
  /\ apipc[w] # "off"
  /\ rlpc[w] = "idle"
  /\ rl_lock[l] = None
  /\ CallsMade + Cardinality({v \in APIWorkers : rlpc[v] = "sleep"}) < MaxCalls
  /\ IF Len(kept) >= REQUESTS_PER_MINUTE /\ WaitTime(kept, now) > 0
     THEN /\ request_times' = [request_times EXCEPT ![l] = kept]
          /\ rl_lock' = [rl_lock EXCEPT ![l] = w]
          /\ rlpc' = [rlpc EXCEPT ![w] = "sleep"]
          /\ rl_now' = [rl_now EXCEPT ![w] = now]
          /\ rl_wake' = [rl_wake EXCEPT ![w] = now + WaitTime(kept, now)]
          /\ UNCHANGED issued
     ELSE /\ request_times' = [request_times EXCEPT ![l] = Append(kept, now)]
          /\ issued' = [issued EXCEPT ![w] = Append(@, now)]
          /\ UNCHANGED <<rl_lock, rlpc, rl_now, rl_wake>>
  /\ UNCHANGED <<now, diskVars, shutdown_flag, parts_queue, download_queue,
                 results_queue, mainVars, at_shutdown, apiVars, dlVars,
                 sharedVars, requests, search_calls, callVars,
                 socketVars, progressVars>>

\* a call of wait_if_needed by a worker that holds its headers
RLEnter(w) == WaitIfNeeded(w) /\ UNCHANGED authVars

\* time.sleep(wait_time) is over: the now read before the sleep is appended,
\* the lock released, and the caller sends its request
WaitOver(w) ==
  LET l == RateLimiterOf(w) IN
  /\ rlpc[w] = "sleep"
  /\ now >= rl_wake[w]
  /\ request_times' = [request_times EXCEPT ![l] = Append(@, rl_now[w])]
  /\ issued' = [issued EXCEPT ![w] = Append(@, now)]
  /\ rl_lock' = [rl_lock EXCEPT ![l] = None]
  /\ rlpc' = [rlpc EXCEPT ![w] = "idle"]
  /\ rl_now' = [rl_now EXCEPT ![w] = 0]
  /\ rl_wake' = [rl_wake EXCEPT ![w] = 0]
  /\ UNCHANGED <<now, diskVars, shutdown_flag, parts_queue, download_queue,
                 results_queue, mainVars, at_shutdown, apiVars, dlVars,
                 sharedVars, requests, search_calls, callVars,
                 socketVars, progressVars>>

RLWake(w) == WaitOver(w) /\ UNCHANGED authVars

\* search_part_with_key, step by step: _ensure_worker_authenticated (the
\* calls of thread 1 for the worker's credential), then, with the token in
\* the headers, _search_part_with_headers down to wait_if_needed and the
\* POST that follows it; auth_ret is "held" or "fetched" from the return of
\* the check to the POST
KeyAuth(w) ==
  /\ rlpc[w] = "idle"
  /\ auth_ret[w] \notin {"held", "fetched"}
  /\ AuthCall(w, "worker")
KeySearch(w) ==
  /\ auth_ret[w] \in {"held", "fetched"}
  /\ WaitIfNeeded(w)
  /\ auth_ret' = [auth_ret EXCEPT ![w] = IF rlpc'[w] = "sleep" THEN @ ELSE "none"]
  /\ UNCHANGED <<access_token, token_expiry, session_lock, authpc, auth_req,
                 token_ok, token_posts>>
KeySearchWake(w) ==
  /\ WaitOver(w)
  /\ auth_ret' = [auth_ret EXCEPT ![w] = "none"]
  /\ UNCHANGED <<access_token, token_expiry, session_lock, authpc, auth_req,
                 token_ok, token_posts>>

\* time.time() moves on
Tick ==
  /\ \E d \in TickSteps : now + d <= MaxTime /\ now' = now + d
  /\ UNCHANGED <<request_times, rl_lock, rlpc, rl_now, rl_wake, issued,
                 diskVars, shutdown_flag, parts_queue, download_queue,
                 results_queue, mainVars, at_shutdown, apiVars, dlVars,
                 sharedVars, requests, authVars, search_calls, callVars,
                 socketVars, progressVars>>

\* ------------------------------------------------------------------ specifications
Next ==
  \/ MainStep
  \/ \E w \in APIWorkers : ApiStep(w)
  \/ \E d \in DLWorkers : DlStep(d)
  \/ Interrupt

Spec == Init /\ [][Next]_vars

SpecResume == InitResume /\ [][Next]_vars

\* the download workers alone, and the SIGINT
NextDownloads ==
  \/ \E d \in DLWorkers : DlStep(d)
  \/ Interrupt

SpecDownloads == InitDownloads /\ [][NextDownloads]_vars

\* the search workers at their rate limiters, and the clock
NextRL ==
  \/ \E w \in APIWorkers : RLEnter(w)
  \/ \E w \in APIWorkers : RLWake(w)
  \/ Tick

SpecRL == InitPools /\ [][NextRL]_vars

\* the threads at the credentials, and the clock
NextAuth ==
  \/ \E t \in AuthThreads, h \in Holders : AuthCall(t, h)
  \/ \E t \in AuthThreads : AuthResponse(t)
  \/ \E t \in AuthThreads : AuthWake(t)
  \/ Tick

SpecAuth == InitPools /\ [][NextAuth]_vars

\* the clock as search_part_with_key sees it: between the return of the
\* token check and the call of wait_if_needed nothing blocks, the time goes
\* by in the requests and in the sleeps
KeyTick(w) ==
  /\ ~(auth_ret[w] \in {"held", "fetched"} /\ rlpc[w] = "idle")
  /\ Tick

\* the first search worker in search_part_with_key, and the clock
NextKey ==
  \/ KeyAuth(1)
  \/ AuthResponse(1)
  \/ AuthWake(1)
  \/ KeySearch(1)
  \/ KeySearchWake(1)
  \/ KeyTick(1)

SpecKey == InitPools /\ [][NextKey]_vars

\* the calls of the progress bar by run() and three workers
NextProgress ==
  \/ ProgDrain
  \/ ProgUpdate
  \/ \E w \in ProgWorkers : ProgCall(w)
  \/ \E w \in ProgWorkers : ProgWriteStatus(w)
  \/ \E t \in ProgThreads : ProgAcquire(t)
  \/ \E t \in ProgThreads : ProgRelease(t)

SpecProgress == InitProgress /\ [][NextProgress]_vars

\* the GETs of two download workers, statement by statement
NextSocket ==
  \/ \E d \in DLWorkers : SockSave(d)
  \/ \E d \in DLWorkers : SockSet(d)
  \/ \E d \in DLWorkers : SockRestore(d)

SpecSocket == InitSocket /\ [][NextSocket]_vars

\* the searches alone
NextSearch == GeneralSearch

SpecSearch == InitPools /\ [][NextSearch]_vars

\* one call of _find_best_match
NextBestMatch == BestMatchCall

SpecBestMatch == InitBestMatch /\ [][NextBestMatch]_vars

\* one call of _find_manufacturer_variants
NextVariants == VariantsCall

SpecVariants == InitVariants /\ [][NextVariants]_vars

\* the drain loop with its pause, and the workers
NextPause ==
  \/ MainStep
  \/ MainWake
  \/ \E w \in APIWorkers : ApiStep(w)
  \/ \E d \in DLWorkers : DlStep(d)

SpecPause == InitPause /\ [][NextPause]_vars

\* the parts queue is filled
NextFill == FillQueue

SpecFill == InitFill /\ [][NextFill]_vars

\* one run without SIGINT in which the loops of the workers also catch
\* exceptions
NextRaise ==
  \/ MainStep
  \/ \E w \in APIWorkers : ApiStep(w) \/ ApiRaise(w)
  \/ \E d \in DLWorkers : DlStep(d) \/ DlRaise(d)

SpecRaise == Init /\ [][NextRaise]_vars

NextNoSignal ==
  \/ MainStep
  \/ \E w \in APIWorkers : ApiStep(w)
  \/ \E d \in DLWorkers : DlStep(d)

SpecNoSignal ==
  /\ InitPools
  /\ [][NextNoSignal]_vars
  /\ WF_vars(MainStep)
  /\ \A w \in APIWorkers : WF_vars(ApiStep(w))
  /\ \A d \in DLWorkers : WF_vars(DlStep(d))

\* one run with its SIGINT in which every thread is scheduled fairly
SpecStop ==
  /\ InitStop
  /\ [][Next]_vars
  /\ WF_vars(MainStep)
  /\ \A w \in APIWorkers : WF_vars(ApiStep(w))
  /\ \A d \in DLWorkers : WF_vars(DlStep(d))

\* ------------------------------------------------------------------ properties
AllResults == results_queue \o results["success"] \o results["no_datasheet"]
                \o results["not_found"] \o results["download_failed"]
                \o results["errors"]
Count(s, p) == Cardinality({i \in 1..Len(s) : s[i] = p})
CountResults(s, p) == Cardinality({i \in 1..Len(s) : s[i].part = p})
DrainedResults == results["success"] \o results["no_datasheet"]
                    \o results["not_found"] \o results["download_failed"]
                    \o results["errors"]

\* C1: with no shutdown signal, run() leaves its drain loop, and leaves it
\* with exactly NumParts results collected: one per part record, each with a
\* status of the enum.
C1_LoopLeftComplete ==
  (mainpc = "signal" /\ ~shutdown_flag) =>
     /\ completed_count = NumParts
     /\ Len(DrainedResults) = NumParts
     /\ \A p \in Parts : CountResults(DrainedResults, p) = 1
     /\ \A i \in 1..Len(DrainedResults) : DrainedResults[i].status \in Statuses
C1_ExactlyKResults == []C1_LoopLeftComplete /\ <>(mainpc = "signal")
C1_Witness ==
  /\ mainpc = "signal" /\ ~shutdown_flag
  /\ completed_count = NumParts
  /\ results["download_failed"] # <<>>
  /\ results["errors"] # <<>>

\* C2: a part record is at every moment in exactly one place: in the parts
\* queue, in a search worker's hands, in the download queue as a job, in a
\* download worker's hands, or as one result (queued or drained). So a
\* search worker puts a result or a job for what it popped, never both and
\* never neither, a download worker puts one result per job, and no part
\* has more than one result.
Places(p) ==
  Count(parts_queue, p)
  + Cardinality({w \in APIWorkers : api_item[w] = p})
  + Count(download_queue, p)
  + Cardinality({d \in DLWorkers : dl_job[d] = p})
  + CountResults(AllResults, p)
C2_OneResultOrJob == \A p \in Parts : Places(p) = 1
C2_Witness ==
  \E i \in 1..Len(results_queue), j \in 1..Len(download_queue) :
     /\ results_queue[i].status = "download_failed"
     /\ download_queue[j] # None

\* C3: with resume enabled, a part record popped while its target file
\* exists with non-zero size gets a success result marked skipped on the
\* spot, with no job queued and no request sent; and no authentication,
\* search or download request is ever sent for a part with such a result.
C3_SkipStep ==
  \A w \in APIWorkers :
    (/\ apipc[w] = "get" /\ apipc'[w] # "get"
     /\ parts_queue # <<>>
     /\ files[Head(parts_queue)] \in {"partial", "signature", "pdf"})
    => /\ results_queue' = Append(results_queue,
                                  Result(Head(parts_queue), "success", TRUE, ""))
       /\ requests' = requests
       /\ download_queue' = download_queue
       /\ files' = files
C3_NoRequestForSkipped ==
  \A i \in 1..Len(AllResults) :
    AllResults[i].skipped =>
      /\ AllResults[i].status = "success"
      /\ \A k \in {"auth", "search", "download"} :
           <<k, AllResults[i].part>> \notin requests
C3_ResumeSkips == [][C3_SkipStep]_vars /\ []C3_NoRequestForSkipped
C3_Witness ==
  \E i \in 1..Len(results["success"]) :
     /\ results["success"][i].skipped
     /\ files[results["success"][i].part] = "pdf"
     /\ requests # {}

\* C6: the items in flight when shutdown is signalled (taken from the parts
\* queue, result not yet drained) are all in the results the final report
\* is written from.
C6_InFlightReported == mainpc = "done" => at_shutdown.inflight \subseteq Drained

\* C7: every result that was on the results queue when shutdown was
\* signalled is in the results the final report is written from.
C7_QueuedReported ==
  mainpc = "done" =>
    \A p \in at_shutdown.queued : CountResults(DrainedResults, p) >= 1

\* C8: once shutdown_flag is set, no worker takes a part record from the
\* parts queue or a job from the download queue, and no request is sent.
C8_Step ==
  shutdown_flag =>
    /\ parts_queue' = parts_queue
    /\ ~(/\ download_queue # <<>>
         /\ Head(download_queue) # None
         /\ download_queue' = Tail(download_queue))
    /\ requests' = requests
C8_NoNewWorkAfterShutdown == [][C8_Step]_vars

\* C9: a success result for which no GET was sent is a result for a target
\* file that exists with non-zero size: a zero-byte file is not reported as
\* downloaded without fetching.
C9_ShortCircuitOnlyNonEmpty ==
  \A i \in 1..Len(AllResults) :
    (AllResults[i].status = "success"
       /\ <<"download", AllResults[i].part>> \notin requests)
    => files[AllResults[i].part] \in {"partial", "signature", "pdf"}

\* the download worker d puts the result of a download whose max_attempts
\* GETs were all answered 403
Emits403(d) ==
  /\ dlpc[d] = "emit" /\ dlpc'[d] = "loop"
  /\ n403[d] = max_attempts(dl_job[d])
EmittedResult == results_queue'[Len(results_queue')]

\* C10: when every attempt up to max_attempts is answered 403, the result is
\* download_failed, no file of the job is on disk, and the message includes
\* the retry count.
C10_MessageHasRetryCount ==
  [][\A d \in DLWorkers : Emits403(d) =>
       /\ EmittedResult.status = "download_failed"
       /\ files'[dl_job[d]] = "absent"
       /\ EmittedResult.message = Detail403Counted]_vars

\* C10 as amended: when every attempt up to max_attempts is answered 403, the
\* result is download_failed and no file of the job is on disk; the message
\* does not include the retry count: it is the text for a blocked download,
\* or the error detail of another worker's download.
OtherDetails == {"HTTP error", "Timeout error", "Got HTML instead of PDF",
                 "Invalid PDF content", "PDF validation error"}
C10_BlockedMessage ==
  [][\A d \in DLWorkers : Emits403(d) =>
       /\ EmittedResult.part = dl_job[d]
       /\ EmittedResult.status = "download_failed"
       /\ files'[dl_job[d]] = "absent"
       /\ EmittedResult.message # Detail403Counted
       /\ \/ EmittedResult.message = "Part found but download blocked"
          \/ /\ EmittedResult.message \in OtherDetails
             /\ \E e \in DLWorkers \ {d} : dlpc[e] # "off"]_vars
C10_Witness ==
  \E d \in DLWorkers :
     /\ dlpc[d] = "emit"
     /\ n403[d] = max_attempts(dl_job[d])
     /\ ~dl_success[d]
     /\ last_download_error = "None"
     /\ files[dl_job[d]] = "absent"

\* the times at which the callers of limiter l were let through
Returns(l) ==
  {c \in APIWorkers \X (1..MaxCalls) :
     RateLimiterOf(c[1]) = l /\ c[2] <= Len(issued[c[1]])}
InWindow(calls, t) ==
  Cardinality({c \in calls : issued[c[1]][c[2]] <= t
                             /\ t - issued[c[1]][c[2]] < WINDOW})

\* C4: for one limiter with limit N, no 60-second window contains more than N
\* calls, each call counted at the time wait_if_needed returned.
C4_WindowHoldsAtMostN ==
  \A l \in APIWorkers : \A c \in Returns(l) :
     InWindow(Returns(l), issued[c[1]][c[2]]) <= REQUESTS_PER_MINUTE

\* C5: the search requests of the whole pool in any 60-second window never
\* exceed the limit N.
PoolReturns == UNION {Returns(l) : l \in APIWorkers}
C5_PoolHoldsAtMostN ==
  \A c \in PoolReturns :
     InWindow(PoolReturns, issued[c[1]][c[2]]) <= REQUESTS_PER_MINUTE

\* C5 as amended: every search worker has a rate limiter of its own. A call
\* of wait_if_needed by one worker changes no other worker's list of request
\* times, is never kept out by another worker's call, and sleeps only when
\* the caller's own list holds N times of the last 60 seconds; the limit N
\* is per worker.
RLStepOf(w) == issued'[w] # issued[w] \/ rlpc'[w] # rlpc[w]
C5_OwnLimiter ==
  [][\A w \in APIWorkers : RLStepOf(w) =>
       /\ \A v \in APIWorkers \ {w} : request_times'[v] = request_times[v]
       /\ rl_lock[w] \in {None, w}
       /\ rlpc'[w] = "sleep" =>
            Len(Evict(request_times[w], now)) >= REQUESTS_PER_MINUTE]_vars
C5_Witness ==
  /\ Len(issued[1]) > 0 /\ Len(issued[2]) > 0
  /\ ~C5_PoolHoldsAtMostN
  /\ \A w \in APIWorkers : Len(request_times[w]) <= REQUESTS_PER_MINUTE

\* C11: within one download, the waits that follow 403 and 429 responses
\* strictly increase from each retry to the next.
C11_WaitsIncrease ==
  \A d \in DLWorkers : \A i, j \in 1..Len(waits[d]) :
     i < j => waits[d][i].secs < waits[d][j].secs

\* C11 as amended: within one download the waits that follow 403 responses
\* strictly increase from one 403 retry to the next (1 s, then 2 s); the
\* wait that follows a 429 response is 5 s every time.
C11_Only403WaitsIncrease ==
  \A d \in DLWorkers : \A i \in 1..Len(waits[d]) :
     /\ waits[d][i].after = "429" => waits[d][i].secs = 5
     /\ waits[d][i].after = "403" =>
          /\ waits[d][i].secs >= 1
          /\ \A j \in 1..Len(waits[d]) :
               (i < j /\ waits[d][j].after = "403")
                 => waits[d][j].secs >= 2 * waits[d][i].secs
C11_Witness ==
  \E d \in DLWorkers :
     /\ Len(waits[d]) = 2
     /\ waits[d][1].after = "403" /\ waits[d][2].after = "403"

\* C12: a response with an HTML content type and a direct PDF link in it is
\* followed by one GET of the extracted link, and that GET by no further one.
C12_FollowsLinkOnce ==
  [][\A d \in DLWorkers :
       /\ (html_seen[d] = "no" /\ html_seen'[d] = "html_link")
            => dlpc'[d] = "attempt"
       /\ (html_seen[d] = "html_link" /\ dlpc[d] = "attempt")
            => dlpc'[d] # "attempt"]_vars

\* C12 as amended: a response with an HTML content type, with or without a
\* PDF link in it, ends the download at once: failure with the reason "Got
\* HTML instead of PDF", nothing written to the target file, and no further
\* GET for the job.
C12_HtmlStep ==
  \A d \in DLWorkers :
    (html_seen[d] = "no" /\ html_seen'[d] # "no") =>
       /\ dlpc'[d] = "emit"
       /\ ~dl_success'[d]
       /\ last_download_error' = "Got HTML instead of PDF"
       /\ files' = files
C12_HtmlEndsDownload ==
  /\ [][C12_HtmlStep]_vars
  /\ [](\A d \in DLWorkers : html_seen[d] # "no" => dlpc[d] = "emit")
C12_Witness ==
  \E d \in DLWorkers :
     /\ html_seen[d] = "html_link"
     /\ dlpc[d] = "emit"
     /\ attempt[d] = 1

\* the results of downloads that sent a GET
Fetched ==
  {i \in 1..Len(AllResults) :
     /\ AllResults[i].status = "success"
     /\ ~AllResults[i].skipped
     /\ <<"download", AllResults[i].part>> \in requests}

\* C13: a freshly fetched download is a success only if the written content
\* is larger than a minimum size (here: than the signature alone) and begins
\* with %PDF.
C13_SizeAndSignature ==
  \A i \in Fetched : files[AllResults[i].part] = "pdf"

\* C13 as amended: a freshly fetched download is a success only if the
\* written content begins with %PDF; its size is not checked, a body of the
\* four bytes %PDF is a success.
C13_SignatureOnly ==
  \A i \in Fetched : files[AllResults[i].part] \in {"pdf", "signature"}
C13_Witness ==
  \E i \in Fetched : files[AllResults[i].part] = "signature"

\* C14: when the validation of a downloaded file fails (no %PDF at its
\* start, or the validation raises), the file is gone from disk when the
\* download returns failure, and the reason is left for the result message.
InvalidDetails == {"Invalid PDF content", "PDF validation error"}
C14_InvalidFileDeleted ==
  [][\A d \in DLWorkers :
       (/\ dlpc[d] = "stream" /\ dlpc'[d] = "emit"
        /\ ~shutdown_flag
        /\ ~dl_success'[d])
       => \/ /\ last_download_error' \in InvalidDetails
             /\ files'[dl_job[d]] = "absent"
          \/ /\ last_download_error' = "Timeout error"
             /\ attempt[d] = max_attempts(dl_job[d]) - 1]_vars
C14_Witness ==
  \E d \in DLWorkers :
     /\ dlpc[d] = "emit"
     /\ ~dl_success[d]
     /\ last_download_error = "PDF validation error"
     /\ files[dl_job[d]] = "absent"
     /\ attempt[d] = 0

\* C15: a call for a credential sends a token request if and only if no
\* token is held or the clock is at or past the stored expiry; otherwise it
\* returns success with no request; a 200 replaces the token and stores the
\* time of the answer + expires_in - 60 as the expiry.
C15_Step ==
  \A t \in AuthThreads :
    /\ (authpc[t] = "idle" /\ authpc'[t] = "fetch") =>
         /\ token_posts' = token_posts + 1
         /\ \/ access_token[auth_req'[t].holder] = None
            \/ now >= token_expiry[auth_req'[t].holder]
    /\ (authpc[t] = "idle" /\ auth_ret[t] # "held" /\ auth_ret'[t] = "held") =>
         /\ token_posts' = token_posts
         /\ authpc'[t] = "idle"
         /\ \E h \in Holders :
              /\ t \in CallersOf(h)
              /\ access_token[h] # None /\ now < token_expiry[h]
              /\ access_token'[h] = access_token[h]
              /\ token_expiry'[h] = token_expiry[h]
    /\ (authpc[t] = "fetch" /\ auth_ret'[t] = "fetched") =>
         /\ access_token'[auth_req[t].holder] \notin
              {None, access_token[auth_req[t].holder]}
         /\ \E e \in ExpiresIn :
              token_expiry'[auth_req[t].holder] = now + e - 60
C15_FetchIffMissingOrExpired == [][C15_Step]_vars
C15_Witness ==
  /\ \E t \in AuthThreads : auth_ret[t] = "held"
  /\ \E a, b \in token_ok :
       a.holder = "downloader" /\ b.holder = "downloader" /\ a.gen # b.gen

\* C16: a 429 to the token request makes the worker sleep and gives the item
\* it was processing no failure result; any other failure of the token
\* request gives the item an error result.
C16_ThrottledAuthNotSurfaced ==
  [][\A w \in APIWorkers :
       (apipc[w] = "auth_cooldown" /\ apipc'[w] # "auth_cooldown") =>
          ~\E i \in 1..Len(results_queue') :
             /\ results_queue'[i].part = api_item[w]
             /\ results_queue'[i].status = "error"]_vars

\* C17: of the threads calling _ensure_authenticated on the shared
\* downloader while its credential is missing or expired, one sends the
\* token request; when it succeeds, no other thread sends one for the same
\* credential, and no two token requests are in flight together.
C17_OneFetchPerCycle ==
  /\ Cardinality({t \in AuthThreads :
                    authpc[t] # "idle" /\ auth_req[t].holder = "downloader"}) <= 1
  /\ \A a, b \in token_ok :
       (a.holder = "downloader" /\ b.holder = "downloader" /\ a.gen = b.gen)
         => a = b
C17_Witness ==
  /\ \E a \in token_ok : a.holder = "downloader" /\ a.thread = 1 /\ a.gen = None
  /\ auth_ret[2] = "held"
  /\ token_posts = 1
  /\ now = 0

\* C18: a 429 to the search request is not the reason of a terminal result:
\* the part gets no not_found and no error result for it.
C18_ThrottledSearchNotTerminal ==
  [][\A w \in APIWorkers :
       (apipc[w] = "cooldown" /\ apipc'[w] # "cooldown") =>
          ~\E i \in 1..Len(results_queue') :
             /\ results_queue'[i].part = api_item[w]
             /\ results_queue'[i].status \in {"not_found", "error"}]_vars

\* C19: a throttling pause or an authentication failure of one search
\* worker changes nothing of another worker and takes nothing from the
\* parts queue: a worker waiting for an item gets one while the other is
\* paused; the worker that failed is back at the head of its loop, still
\* running, once the item has its result.
Paused(w) == apipc[w] \in {"cooldown", "auth_cooldown"}
FailsItem(w) ==
  \/ ~Paused(w) /\ apipc'[w] \in {"cooldown", "auth_cooldown"}
  \/ /\ api_item[w] # None /\ api_item'[w] = None
     /\ results_queue' # results_queue
     /\ results_queue'[Len(results_queue')].status = "error"
C19_Step ==
  \A w \in APIWorkers : FailsItem(w) =>
    /\ \A v \in APIWorkers \ {w} :
         /\ apipc'[v] = apipc[v] /\ api_item'[v] = api_item[v]
         /\ has_token'[v] = has_token[v] /\ is_running'[v] = is_running[v]
    /\ parts_queue' = parts_queue
    /\ shutdown_flag' = shutdown_flag
    /\ is_running'[w] = is_running[w]
    /\ ~Paused(w)' => apipc'[w] = "loop"
C19_OthersGoOn ==
  \A w, v \in APIWorkers :
    (Paused(w) /\ v # w /\ apipc[v] = "get" /\ parts_queue # <<>>)
      => ENABLED ApiGet(v)
C19_FailureIsLocal == [][C19_Step]_vars /\ []C19_OthersGoOn
C19_Witness ==
  /\ apipc[1] = "cooldown" /\ api_item[1] = 1
  /\ apipc[2] = "get"
  /\ \E i \in 1..Len(AllResults) :
       /\ AllResults[i].part = 2
       /\ AllResults[i].message = "Failed to authenticate API worker"

\* C20: when the first search is ambiguous and the manufacturer hint has
\* candidates, the search is sent again once per candidate manufacturer id,
\* in priority order, each retry filtered by that one id.
C20_RetriesPerCandidate ==
  \A k \in 1..Len(search_calls) :
    LET c == search_calls[k] IN
    (c.resp = "several" /\ c.cands # <<>>) =>
       /\ Len(c.posts) >= 2
       /\ Len(c.posts) <= 1 + Len(c.cands)
       /\ \A i \in 2..Len(c.posts) : c.posts[i] = <<c.cands[i - 1]>>

\* C21 (as stated): over a non-empty list _find_best_match returns the first
\* product whose part number equals the query without regard to case, else
\* the first whose part number is a prefix of or contains the query or the
\* other way round, else the first Active product with a datasheet URL, else
\* the first product; None only for an empty list.
C21_Returned == call_in.fn = "_find_best_match" /\ call_out.done
C21_Least(S) == CHOOSE i \in S : \A j \in S : i <= j
C21_Equal(i) ==
  upper(call_in.products[i].mfr_pn) = upper(call_in.original_part)
C21_ContainsEitherWay(i) ==
  \/ Contains(upper(call_in.products[i].mfr_pn), upper(call_in.original_part))
  \/ Contains(upper(call_in.original_part), upper(call_in.products[i].mfr_pn))
C21_PrefixEitherWay(i) ==
  /\ call_in.products[i].mfr_pn # <<>>
  /\ \/ startswith(upper(call_in.products[i].mfr_pn),
                   upper(call_in.original_part))
     \/ startswith(upper(call_in.original_part),
                   upper(call_in.products[i].mfr_pn))
C21_Active(i) ==
  /\ call_in.products[i].ProductStatus = "Active"
  /\ call_in.products[i].has_url
C21_Priority(B(_)) ==
  LET idx == 1..Len(call_in.products)
      a == {i \in idx : C21_Equal(i)}
      b == {i \in idx : B(i)}
      c == {i \in idx : C21_Active(i)}
  IN  IF idx = {} THEN 0
      ELSE IF a # {} THEN C21_Least(a)
      ELSE IF b # {} THEN C21_Least(b)
      ELSE IF c # {} THEN C21_Least(c)
      ELSE 1
C21_ContainsPriority ==
  C21_Returned => call_out.value = C21_Priority(C21_ContainsEitherWay)

\* C21 (amended): the second rule is a prefix test, in either direction, on
\* a non-empty part number; a part number that contains the query elsewhere
\* than at its start is not matched by it.
C21_PrefixPriority ==
  C21_Returned => call_out.value = C21_Priority(C21_PrefixEitherWay)
\* C21 witness: a call where the first product holds the query in its middle
\* only and the second one, Active with a datasheet, is returned.
C21_Witness ==
  /\ C21_Returned
  /\ Len(call_in.products) = 2
  /\ C21_ContainsEitherWay(1)
  /\ ~C21_PrefixEitherWay(1)
  /\ C21_Active(2)
  /\ call_out.value = 2

\* C23: the resolver returns at most 5 manufacturer ids, none repeated, and
\* an empty list when the name is empty or no directory is loaded.
C23_Returned ==
  call_in.fn = "_find_manufacturer_variants" /\ call_out.done
C23_AtMostFiveDistinct ==
  C23_Returned =>
    /\ Len(call_out.value) <= 5
    /\ \A i, j \in 1..Len(call_out.value) :
         i # j => call_out.value[i] # call_out.value[j]
    /\ (call_in.manufacturer_name = <<>> \/ call_in.manufacturers = <<>>)
         => call_out.value = <<>>
\* C23 witness: a call that collected more than five ids and returned five.
C23_Witness ==
  /\ C23_Returned
  /\ Len(MatchesAfterPartial(call_in)) > 5
  /\ Len(call_out.value) = 5

\* C22: in the resolver's list, ids obtained from the alias table come before
\* the id of the exact directory match, which comes before ids found by
\* approximate similarity, which come before ids found by substring or
\* initials matching.
C22_Name == strip(upper(call_in.manufacturer_name))
C22_IdsOf(names) ==
  {call_in.manufacturers[i].id :
     i \in {j \in 1..Len(call_in.manufacturers) :
              call_in.manufacturers[j].name \in names}}
C22_AliasIds ==
  C22_IdsOf(Range(MappedTerms(C22_Name, call_in.acquisition_mappings, 1)))
C22_ExactIds == C22_IdsOf({C22_Name})
C22_CloseIds == C22_IdsOf(Range(call_in.close_matches))
C22_Rank(id) ==
  IF id \in C22_AliasIds THEN 1
  ELSE IF id \in C22_ExactIds THEN 2
  ELSE IF id \in C22_CloseIds THEN 3
  ELSE 4
C22_AliasBeforeExact ==
  C23_Returned =>
    \A i, j \in 1..Len(call_out.value) :
      i < j => C22_Rank(call_out.value[i]) <= C22_Rank(call_out.value[j])

\* C24 (as stated): when the name equals an alias key that is not a directory
\* name and a synonym of the key is one, the first id returned is the id of a
\* synonym of that key.
C24_KeyAt(k) ==
  /\ call_in.acquisition_mappings[k].key = C22_Name
  /\ ~InDirectory(call_in.manufacturers, C22_Name)
  /\ \E v \in Range(call_in.acquisition_mappings[k].variations) :
       InDirectory(call_in.manufacturers, v)
C24_SynonymFirst ==
  C23_Returned =>
    \A k \in 1..Len(call_in.acquisition_mappings) :
      C24_KeyAt(k) =>
        /\ call_out.value # <<>>
        /\ call_out.value[1]
             \in C22_IdsOf(Range(call_in.acquisition_mappings[k].variations))

\* C24 (amended): the same, provided no mapping listed before the key's adds
\* a directory name to the search terms; the first id is then that of the
\* first synonym of the key, in list order, that is a directory name.
C24_NothingBefore(k) ==
  \A t \in Range(MappedTerms(C22_Name,
                             SubSeq(call_in.acquisition_mappings, 1, k - 1),
                             1)) :
    ~InDirectory(call_in.manufacturers, t)
C24_FirstSynonym(k) ==
  LET variations == call_in.acquisition_mappings[k].variations
      first == CHOOSE i \in 1..Len(variations) :
                 /\ InDirectory(call_in.manufacturers, variations[i])
                 /\ \A j \in 1..(i - 1) :
                      ~InDirectory(call_in.manufacturers, variations[j])
  IN  IdOf(call_in.manufacturers, variations[first])
C24_FirstSynonymFirst ==
  C23_Returned =>
    \A k \in 1..Len(call_in.acquisition_mappings) :
      (C24_KeyAt(k) /\ C24_NothingBefore(k)) =>
        /\ call_out.value # <<>>
        /\ call_out.value[1] = C24_FirstSynonym(k)
\* C24 witness: the name "ti" resolved with the mapping of TI alone, TI not
\* in the directory and TX IN in it: the id of TX IN comes first.
C24_Witness ==
  /\ C23_Returned
  /\ call_in.manufacturer_name = <<"t", "i">>
  /\ call_in.acquisition_mappings = <<MappingTI>>
  /\ C24_KeyAt(1)
  /\ InDirectory(call_in.manufacturers, TX_IN)
  /\ call_out.value[1] = 2

\* C25: a DownloadJob is put on the download queue only by a search that
\* found a product with a datasheet URL, and with no result of the search
\* worker for it; a found product without a datasheet URL gives a
\* no_datasheet result and no DownloadJob, then or later.
C25_ResultsOf(p) ==
  {r \in Range(results_queue) : r.part = p}
    \cup UNION {{r \in Range(results[c]) : r.part = p} : c \in Categories}
C25_HasJob(p) ==
  \/ p \in Range(download_queue)
  \/ \E d \in DLWorkers : dl_job[d] = p
  \/ \E r \in C25_ResultsOf(p) : r.status \in {"success", "download_failed"}
C27_NoDispatchInPause ==
  [][(mainpc = "pause" /\ mainpc' = "pause") =>
       /\ parts_queue' = parts_queue
       /\ \A w \in APIWorkers : api_item'[w] \in {api_item[w], None}
       /\ \A d \in DLWorkers : dl_job'[d] \in {dl_job[d], None}]_vars

\* C28 (as stated): the final report lists the results by status category
\* (success, no datasheet, not found, download failed, error) and, within a
\* category, in ascending order of internal id.
C28_CategoryRank(status) ==
  CASE status = "success" -> 1
    [] status = "no_datasheet" -> 2
    [] status = "not_found" -> 3
    [] status = "download_failed" -> 4
    [] OTHER -> 5
C28_Report == save_report(results)
C28_ByCategory ==
  \A i, j \in 1..Len(C28_Report) :
    i < j => C28_CategoryRank(C28_Report[i].status)
               <= C28_CategoryRank(C28_Report[j].status)
C28_SortedById ==
  mainpc = "done" =>
    /\ C28_ByCategory
    /\ \A i, j \in 1..Len(C28_Report) :
         (i < j /\ C28_CategoryRank(C28_Report[i].status)
                     = C28_CategoryRank(C28_Report[j].status))
           => C28_Report[i].part < C28_Report[j].part

\* C28 (amended): the report lists every drained result once, by status
\* category in that order; within a category the results stand in the order
\* in which run() took them from the results queue.
C28_DrainOrder ==
  /\ [](mainpc = "done" =>
          /\ C28_ByCategory
          /\ Len(C28_Report) = completed_count)
  /\ [][\A c \in Categories :
          \/ results'[c] = results[c]
          \/ /\ results_queue # <<>>
             /\ results'[c] = Append(results[c], Head(results_queue))]_vars
\* C28 witness: a report whose success lines are part 2, then part 1.
C28_Witness ==
  /\ mainpc = "done"
  /\ Len(results["success"]) = 2
  /\ C28_Report[1].part = 2
  /\ C28_Report[2].part = 1

\* C29: every target file name of a run is queued for processing at most
\* once (so that no two workers work on the same file at the same time).
C29_FilenamesQueuedOnce ==
  (call_in.fn = "fill" /\ call_out.done) =>
    \A i, j \in 1..Len(call_out.value) :
      i # j => call_out.value[i] # call_out.value[j]
\* C29: the same of a parts list whose rows differ from one another.
C29_DistinctRowsDistinctFiles ==
  (call_in.fn = "fill" /\ call_out.done) =>
    \A i, j \in 1..Len(call_out.value) :
      call_in.parts[i] # call_in.parts[j]
        => call_out.value[i] # call_out.value[j]

\* C30: an exception raised while a worker processes an item is caught in
\* the loop: it gives exactly one error result for the item, which had none
\* and never gets a second one, and the worker goes on with its loop.
C30_ResultsOf(p) ==
  Cardinality({i \in 1..Len(results_queue) : results_queue[i].part = p})
    + Cardinality({<<c, i>> \in Categories \X (1..NumParts) :
                     i <= Len(results[c]) /\ results[c][i].part = p})
C30_Caught(r) ==
  r.status = "error"
    /\ r.message \in {"API worker error", "Download worker error"}
C30_Step ==
  /\ \A w \in APIWorkers :
       (apipc[w] = "search" /\ apipc'[w] # "search"
          /\ results_queue' # results_queue
          /\ C30_Caught(results_queue'[Len(results_queue')]))
         => /\ results_queue'[Len(results_queue')].part = api_item[w]
            /\ C30_ResultsOf(api_item[w]) = 0
            /\ download_queue' = download_queue
            /\ apipc'[w] = "loop"
  /\ \A d \in DLWorkers :
       (dlpc[d] = "attempt" /\ dlpc'[d] # "attempt"
          /\ results_queue' # results_queue
          /\ C30_Caught(results_queue'[Len(results_queue')]))
         => /\ results_queue'[Len(results_queue')].part = dl_job[d]
            /\ C30_ResultsOf(dl_job[d]) = 0
            /\ dlpc'[d] = "loop"
C30_ExceptionCaught ==
  /\ [](\A p \in Parts : C30_ResultsOf(p) <= 1)
  /\ [][C30_Step]_vars
\* C30 witness: the item of a worker ended in the handler and the worker
\* took the next item.
C30_Witness ==
  /\ \E r \in Range(results_queue) : C30_Caught(r) /\ r.part = 1
  /\ \/ apipc[1] = "search" /\ api_item[1] = 2
     \/ dlpc[1] = "attempt" /\ dl_job[1] = 2

\* C31: once shutdown_flag is set (run() clears is_running of the search
\* workers and queues the sentinels right after it), every worker that was
\* started leaves its loop and records the status Stopped; and the step in
\* which a download worker pops the None sentinel ends its loop and puts no
\* result.
C31_AllStopped ==
  /\ \A w \in StartedAPI : apipc[w] = "stopped"
  /\ \A d \in StartedDL : dlpc[d] = "stopped"
C31_SentinelStep ==
  \A d \in DLWorkers :
    (/\ dlpc[d] = "get"
     /\ dlpc'[d] # "get"
     /\ download_queue # <<>>
     /\ Head(download_queue) = None)
    => /\ dlpc'[d] = "stopped"
       /\ results_queue' = results_queue
       /\ download_queue' = Tail(download_queue)
C32_Limit(p) == IF p \in ProblematicParts THEN 2 ELSE 3
C32_Bounded ==
  \A d \in StartedDL :
    dl_job[d] # None =>
      /\ gets[d] <= C32_Limit(dl_job[d])
      /\ (gets[d] = C32_Limit(dl_job[d]) => dlpc[d] \in {"stream", "emit"})
C32_QueueStep ==
  \/ download_queue' = download_queue
  \/ download_queue # <<>> /\ download_queue' = Tail(download_queue)
  \/ \E n \in 1..Cardinality(DLWorkers) :
       download_queue' = download_queue \o [i \in 1..n |-> None]
  \/ \E w \in StartedAPI :
       /\ api_item[w] # None
       /\ download_queue' = Append(download_queue, api_item[w])
       /\ requests' = requests \cup {<<"auth", api_item[w]>>, <<"search", api_item[w]>>}
            \/ requests' = requests \cup {<<"search", api_item[w]>>}
C32_BoundedAttempts == []C32_Bounded /\ [][C32_QueueStep]_vars
\* the download of the part on st.com failed with its second GET, after
\* the download of a part elsewhere failed with the error of its last GET
C32_Witness ==
  \E d \in StartedDL :
    /\ dlpc[d] = "emit"
    /\ ~dl_success[d]
    /\ dl_job[d] \in ProblematicParts
    /\ gets[d] = 2
    /\ \E r \in Range(AllResults) :
         /\ r.part \notin ProblematicParts
         /\ r.status = "download_failed"
         /\ r.message = "HTTP error"
\* C33: the counter of consecutive errors goes up by one with every drained
\* result of status error, goes to 0 with every drained result of another
\* status (download_failed included) and at the end of the pause, and nothing
\* else changes it; the pause starts with the drained error that takes the
\* counter to 5 and with no other step; at the start of every turn of the
\* drain loop the counter is below 5.
C33_Step ==
  IF completed_count' = completed_count + 1
  THEN LET r == Head(results_queue) IN
       IF r.status = "error"
       THEN /\ consecutive_errors' = consecutive_errors + 1
            /\ (mainpc' = "pause") = (consecutive_errors' = 5)
       ELSE /\ consecutive_errors' = 0
            /\ mainpc' # "pause"
  ELSE IF mainpc = "pause" /\ mainpc' # "pause"
  THEN consecutive_errors' = 0
  ELSE /\ consecutive_errors' = consecutive_errors
       /\ mainpc' = "pause" => mainpc = "pause"
C33_BelowFive ==
  /\ mainpc \in {"drain", "get"} => consecutive_errors < 5
  /\ mainpc = "pause" => consecutive_errors = 5
C33_Counter == []C33_BelowFive /\ [][C33_Step]_vars
\* the pause is over, and a download_failed result was drained after it
C33_Witness ==
  /\ mainpc = "drain"
  /\ Len(results["errors"]) = 5
  /\ consecutive_errors = 0
  /\ results["download_failed"] # <<>>
\* C34: with several download workers on the one downloader, the url a
\* worker puts in a job's result is the url of that job, and the message of a
\* download_failed result is made of the detail that job's own call of
\* download_datasheet assigned, never of what another worker's call wrote.
C34_OwnValues ==
  \A d \in DLWorkers :
    (dlpc[d] = "emit" /\ dlpc'[d] # "emit") =>
      /\ last_fixed_url = dl_job[d]
      /\ ~dl_success[d] =>
           FailMessage(last_download_error) = FailMessage(own_error[d])
C34_ResultOfOwnDownload == [][C34_OwnValues]_vars
\* C35: in a run over an empty output directory, when download_datasheet
\* has returned failure for a job there is no file at the job's target path,
\* also when the body was cut while it was streamed to the file; so no part
\* with a download_failed result has a target file that the resume check of
\* a later run takes for a finished download.
C35_FailureLeavesNoFile ==
  /\ \A d \in StartedDL :
       (dlpc[d] = "emit" /\ ~dl_success[d]) => files[dl_job[d]] = "absent"
  /\ \A r \in Range(AllResults) :
       r.status = "download_failed" => ~ResumeHit(r.part)
\* C36: whenever the search call of a search worker returns a product with
\* a non-empty DatasheetUrl, the worker puts a DownloadJob for the part on
\* download_queue and no result: the product found is never dropped for an
\* error result.
C36_FoundProductQueued ==
  \A k \in 1..Len(search_calls) :
    LET c == search_calls[k] IN
    (c.returned = "product" /\ c.has_url) =>
       /\ c.job
       /\ c.status = "none"
\* C37: when a search request is sent, the token in its Authorization
\* header is unexpired: the clock is before the expiry stored with the token,
\* also when wait_if_needed made the worker sleep between the check of the
\* token and the request.
C37_Sent(w) == issued'[w] # issued[w]
C37_TokenFreshWhenSent ==
  [][C37_Sent(1) => (access_token["worker"] # None /\ now < token_expiry["worker"])]_vars
\* C38: a search answered in time with an error status other than 429, cut
\* by a network exception, or answered with no product gives the part the
\* status not_found and no job; a search that was sent gives the status
\* error only when the 45 seconds of the part were exceeded (the other
\* errors of the stage come without a search: no token, or an exception that
\* leaves the call).
C38_FailedSearchNotFound ==
  \A k \in 1..Len(search_calls) :
    LET c == search_calls[k] IN
    /\ (c.resp \in {"404", "error", "empty"} /\ ~c.late) =>
          (c.status = "not_found" /\ ~c.job)
    /\ c.status = "error" => c.late
    /\ c.status \in {"none", "not_found", "no_datasheet", "error"}
\* a search that failed in time with an error status or an exception, and
\* one answered with no product after the 45 seconds
C38_Witness ==
  \E j, k \in 1..Len(search_calls) :
    /\ search_calls[j].resp = "error"
    /\ ~search_calls[j].late
    /\ search_calls[j].status = "not_found"
    /\ search_calls[k].resp = "empty"
    /\ search_calls[k].late
    /\ search_calls[k].status = "error"
\* C39: when every GET of the download workers is over, the process-wide
\* default socket timeout is what it was before the first of them (here: not
\* set), however the save, set and restore statements of the workers were
\* interleaved.
C39_TimeoutRestored ==
  (\A d \in DLWorkers : sockpc[d] = "idle") => default_timeout = None
\* C40: progress.current goes up by one for each drained result, while
\* run() holds the lock of the bar, and is never above the number of parts;
\* a thread is inside a method of the bar only while it holds that lock, an
\* entry of worker_status is written only by the worker it names while that
\* worker holds the lock, and the entries are read only under the lock.
C40_Counted ==
  /\ current <= LenParts
  /\ current = completed_count
                 - (IF progpc["main"] \in {"wait", "in"} THEN 1 ELSE 0)
  /\ \A t \in ProgThreads : progpc[t] \in {"in", "exit"} => progress_lock = t
C40_Step ==
  /\ current' # current =>
       progress_lock = "main" /\ current' = current + 1
  /\ \A w \in ProgWorkers :
       worker_status'[w] # worker_status[w] => progress_lock = w
  /\ displayed' # displayed => progress_lock = "main"
C40_ProgressUnderLock == []C40_Counted /\ [][C40_Step]_vars
C40_Witness ==
  /\ current = LenParts
  /\ displayed["DL-Worker-2"] = "Downloading"
  /\ worker_status["DL-Worker-2"] = "Stopped"
  /\ worker_status["API-Worker"] = "Stopped"
  /\ progpc["DL-Worker-1"] = "wait"
====
